---- MODULE Spec2Model ----
(***************************************************************************)
(* Model of the trading orchestrator: TradingBot (start / stop /           *)
(* forceStop / trading loop), MarketAnalyzer (startAnalysis /              *)
(* stopAnalysis / analysis and pair-refresh loops) and the persisted       *)
(* state they share through NeonDatabaseService.                           *)
(*                                                                         *)
(* JavaScript runs one task at a time: the code between two awaits is      *)
(* one atomic step.  Every action below is one such segment of one         *)
(* async call; pc[p] is the await the call p is suspended at.              *)
(***************************************************************************)
EXTENDS Integers, FiniteSets, Sequences, TLC

\* ---- bounds of the model ------------------------------------------------
\* events of one behaviour: start() calls, stop() calls, timer callbacks
\* that enter a tick body, and failures of external calls
MaxEvents == 3
MaxTimers == 6          \* setInterval handles created in one behaviour

\* ---- processes ----------------------------------------------------------
Starters == {"start1", "start2"}       \* concurrent callers of start()
Stoppers == {"stop1", "stop2"}         \* concurrent callers of stop()
TSlots   == {"trade1", "trade2"}       \* in-flight trading-timer callbacks
ASlots   == {"analysis1", "analysis2"} \* in-flight analysis-timer callbacks
PSlots   == {"pairs1"}                 \* in-flight pair-refresh callbacks
Callers  == Starters \cup Stoppers
Procs    == Callers \cup TSlots \cup ASlots \cup PSlots

\* ---- data ---------------------------------------------------------------
Symbols  == {"BTCUSDT", "ETHUSDT"}
NoTimer  == 0                          \* a null interval handle
TimerIds == 1..MaxTimers
\* market_data rows the analysis may store: price, 24h quote volume, 24h
\* change in percent and RSI (0 stands for a NULL rsi column)
NoData   == [price |-> 0, volume |-> 0, change |-> 0, rsi |-> 0]
\* macd is the MACD signal and ema the order of ema12 and ema26 that
\* analyzeSymbol derives from the klines; rsi 0 stands for a missing value
MarketSamples ==
  { [price |-> 94,  volume |-> 2000000, change |-> -6, rsi |-> 20,
     macd |-> "BUY", ema |-> "UP"],
    [price |-> 104, volume |-> 3000000, change |-> 4,  rsi |-> 85,
     macd |-> "NEUTRAL", ema |-> "FLAT"],
    [price |-> 94,  volume |-> 400000,  change |-> -6, rsi |-> 0,
     macd |-> "NEUTRAL", ema |-> "FLAT"] }
\* the row an earlier run left in market_data
StoredRow == [price |-> 94, volume |-> 2000000, change |-> -6, rsi |-> 20,
              macd |-> "BUY", ema |-> "UP"]
HoursOpen == {1, 25}                   \* ages of an open trade, in hours
\* the trade an earlier run left open: bought at EntryPrice for TradeAmount;
\* quantities are counted in units of 1 / QScale, and profit 0 stands for
\* the NULL of the profit column
EntryPrice  == 100
TradeAmount == 200
QScale == 100
StoredTrade == [status |-> "OPEN", price |-> EntryPrice, amount |-> TradeAmount,
                quantity |-> (TradeAmount * QScale) \div EntryPrice,
                profit |-> 0]
SellThreshold == 3                     \* config.sellThreshold of the model
SymbolLists == {<<>>, <<"BTCUSDT">>, <<"ETHUSDT", "BTCUSDT">>,
                <<"BTCUSDT", "ETHUSDT">>}

VARIABLES
  isRunning,          \* TradingBot.isRunning (the in-memory run flag)
  config,             \* TradingBot.config # null
  tradingInterval,    \* TradingBot.tradingInterval
  aIsRunning,         \* MarketAnalyzer.isRunning
  analysisInterval,   \* MarketAnalyzer.analysisInterval
  pairUpdateInterval, \* MarketAnalyzer.pairUpdateInterval
  aConfig,            \* MarketAnalyzer.config # null
  symbols,            \* MarketAnalyzer.symbols
  timers,             \* every handle setInterval returned: kind and liveness
  nextTimer,          \* number of handles created
  botDbInit,          \* NeonDatabaseService.initialized of TradingBot.database
  aDbInit,            \* NeonDatabaseService.initialized of MarketAnalyzer.database
  dbRunning,          \* bot_stats.is_running (the persisted run flag)
  dbConfig,           \* an active bot_config row exists
  capital,            \* bot_stats.total_capital
  totalProfit,        \* bot_stats.total_profit
  trades,             \* trades table: per symbol, its records in id order
  marketData,         \* latest market_data row per symbol
  pc,                 \* per call: the await it is suspended at
  ret,                \* per call: where a nested call returns to
  loc,                \* per call: its local variables
  result,             \* per caller: what the last call returned
  eff,                \* per call: what the current/last call did and saw
                      \* (overlap: a start() was in progress during this
                      \* stop(), or a stop() was called during this tick;
                      \* unordered: such a start() had not raised the run
                      \* flag when this stop() was called; zero: this tick
                      \* read no analysis result; warned: it logged the
                      \* warning of line 337)
  obs,                \* history: flagWriter = the call that wrote the run
                      \* flag last; stopped = a stop() returned success and
                      \* no start() was called since; lateTick = a cycle
                      \* body was entered while stopped; lateCallback = a
                      \* timer callback ran into its guard while stopped;
                      \* orderStopped /
                      \* writeStopped = a tick placed an order / wrote a
                      \* trade or capital after a stop() cleared the flag
  events,             \* events so far (see MaxEvents)
  sel,                \* the DynamicPairSelector: its fields lastSelection,
                      \* lastUpdate, its database's initialized flag, the
                      \* clock, and the call of selectBestTradingPairs in
                      \* flight
  calc                \* the evaluation of one pure function: the function
                      \* applied ("none" before), its arguments, its result

sysVars == <<isRunning, config, tradingInterval, aIsRunning, analysisInterval,
             pairUpdateInterval, aConfig, symbols, timers, nextTimer,
             botDbInit, aDbInit, dbRunning, dbConfig, capital, totalProfit,
             trades, marketData, pc, ret, loc, result, eff, obs, events>>
vars == <<sysVars, sel, calc>>

botVars  == <<isRunning, config, tradingInterval>>
anaVars  == <<aIsRunning, analysisInterval, pairUpdateInterval, aConfig, symbols>>
timVars  == <<timers, nextTimer>>
dbVars   == <<dbRunning, dbConfig, capital, totalProfit, trades,
             marketData>>
initVars == <<botDbInit, aDbInit>>
budVars  == <<events>>

\* ---- helpers ------------------------------------------------------------
NoEff == [setFlag |-> FALSE, dbTrue |-> FALSE, dbWrite |-> FALSE,
          made |-> {}, cleared |-> FALSE, analyzer |-> FALSE,
          notified |-> FALSE, forced |-> FALSE, stepErr |-> FALSE,
          failedAt |-> "none", pastCheck |-> FALSE,
          flag0 |-> FALSE, db0 |-> FALSE, overlap |-> FALSE,
          unordered |-> FALSE, misread |-> FALSE,
          zero |-> FALSE, warned |-> FALSE]

\* locals of a tick: the opportunities still to visit, stats.totalCapital,
\* the side of the order being executed, the trade being sold, the open
\* trades of the sell loop still to visit, the sides of the orders that
\* failed, the reason of the sell decision being executed
NoLoc == [todo |-> <<>>, cap |-> 0, side |-> "", trade |-> 0, left |-> <<>>,
          failed |-> {}, reason |-> ""]

LiveTimers == {k \in TimerIds : timers[k].live}
LiveOf(kind) == {k \in LiveTimers : timers[k].kind = kind}
Referenced == {tradingInterval, analysisInterval, pairUpdateInterval} \ {NoTimer}

\* clearInterval(h) for each non-null handle of hs
Cleared(tm, hs) == [k \in TimerIds |->
                      IF k \in hs THEN [tm[k] EXCEPT !.live = FALSE] ELSE tm[k]]

\* setInterval(...) : the handle nextTimer + n of the given kind becomes live
Created(tm, n, kind) == [tm EXCEPT ![nextTimer + n] = [kind |-> kind, live |-> TRUE]]

CanFail == events < MaxEvents

\* the processes of one kind are interchangeable: a new call or callback
\* takes the first idle one
Order == [start1 |-> 1, start2 |-> 2, stop1 |-> 1, stop2 |-> 2,
          trade1 |-> 1, trade2 |-> 2, analysis1 |-> 1, analysis2 |-> 2,
          pairs1 |-> 1]
Free(p, ps) == pc[p] = "idle" /\ \A q \in ps : pc[q] = "idle" => Order[p] <= Order[q]
\* Outcomes of one call on a NeonDatabaseService: ensureInitialized() runs
\* before the method's try block, so a failed init() rejects the call
\* ("initfail"); a failed query is handled by the method's catch ("sqlfail").
DbOutcomes(initialized) ==
  {"ok"} \cup (IF CanFail
               THEN {"sqlfail"} \cup (IF initialized THEN {} ELSE {"initfail"})
               ELSE {})
\* addLog swallows a failed query (line 1637): only a failed init() shows
LogOutcomes(initialized) ==
  {"ok"} \cup (IF CanFail /\ ~initialized THEN {"initfail"} ELSE {})
InitAfter(initialized, o) == IF o = "initfail" THEN initialized ELSE TRUE
FaultsAfter(o) == IF o = "ok" THEN events ELSE events + 1

\* ---- DynamicPairSelector: data and pure functions --------------------------
MaxClock == 5                          \* the clock runs up to here
MaxCalls == 3                          \* calls of selectBestTradingPairs
UpdateInterval == 2                    \* updateInterval, in clock units
StartClock == UpdateInterval           \* Date.now() is far from lastUpdate = 0
MaxRetries == 3
MinVolume == 500000
MinLiquidity == 5000
Thousand == 1000
MaxVolatility == 25
TopPairsCount == 8

Abs(x) == IF x < 0 THEN -x ELSE x

\* a JavaScript number that may be NaN: the empty set is NaN, {x} is x;
\* every comparison with NaN is false
NaN == {}
Ge(x, m) == \E v \in x : v >= m
Le(x, m) == \E v \in x : v <= m
Gt(x, y) == \E v \in x : \E w \in y : v > w

\* rows of the exchange's 24hr ticker list (what makeRequest("/ticker/24hr")
\* returns): spread is (askPrice - bidPrice) / lastPrice in units of 0.0001
\* percent; tech is the score that the symbol's klines earn in
\* performQuickTechnicalAnalysis
ExchangeRows ==
  { [symbol |-> "BTCUSDT", lastPrice |-> 100, volume |-> 50000,
     quoteVolume |-> 5000000, priceChangePercent |-> 4, spread |-> 5,
     tech |-> 10],
    [symbol |-> "ETHUSDT", lastPrice |-> 50, volume |-> 200000,
     quoteVolume |-> 10000000, priceChangePercent |-> -3, spread |-> 5,
     tech |-> 0],
    [symbol |-> "XRPUSDT", lastPrice |-> 1, volume |-> 400000,
     quoteVolume |-> 400000, priceChangePercent |-> 1, spread |-> 2000,
     tech |-> 0],
    [symbol |-> "BTCUPUSDT", lastPrice |-> 10, volume |-> 100000,
     quoteVolume |-> 1000000, priceChangePercent |-> 9, spread |-> 5,
     tech |-> 0] }

\* the ticker lists the exchange may answer with: up to two distinct rows
Universes ==
  ({<<>>} \cup {<<r>> : r \in ExchangeRows}
          \cup {<<r1, r2>> : r1 \in ExchangeRows, r2 \in ExchangeRows})
  \ {<<r, r>> : r \in ExchangeRows}

\* BinanceTestnetService.getAllTickers (lines 558-572): the fields it copies
\* (tech stays with the row: getKlines is asked for it by symbol)
TickerData(row) ==
  [symbol |-> row.symbol, price |-> row.lastPrice,
   priceChangePercent |-> row.priceChangePercent, volume |-> row.volume,
   spread |-> row.spread, tech |-> row.tech]

GetAllTickers(rows) == [i \in 1..Len(rows) |-> TickerData(rows[i])]

\* the symbol tests of the usdtPairs filter (lines 105-117) on the symbols
\* of the model: BTCUPUSDT contains "UP"
NameAllowed(symbol) == symbol \in {"BTCUSDT", "ETHUSDT", "XRPUSDT"}
PopularAsset(symbol) == symbol \in {"BTCUSDT", "ETHUSDT"}

\* the usdtPairs filter (lines 103-120)
PreFilter(ticker) ==
  /\ NameAllowed(ticker.symbol)
  /\ ticker.price > 0
  /\ ticker.volume > 1000

\* analyzePair (lines 217-323) for a ticker whose quote volume reads as
\* volume; a NaN volume makes volumeScore, score and liquidity NaN.
\* liquidity = volume / (spreadPercent + 0.0001) is kept in thousands
AnalyzePairOf(ticker, volume) ==
  LET absChange == Abs(ticker.priceChangePercent)
      rest == (IF absChange >= 2 /\ absChange <= 8
                 THEN 25 - Abs(absChange - 4) * 3
                 ELSE IF absChange > 8 THEN 10 ELSE 0)
              + (IF absChange > 1
                   THEN (IF absChange * 2 < 20 THEN absChange * 2 ELSE 20)
                   ELSE 0)
              + ticker.tech
              + (IF ticker.spread < 1000 THEN 15 ELSE 0)
              + (IF PopularAsset(ticker.symbol) THEN 10 ELSE 0)
      volumeScore(v) == IF (v * 3) \div 1000000 < 30
                          THEN (v * 3) \div 1000000 ELSE 30
  IN [symbol |-> ticker.symbol,
      score |-> {volumeScore(v) + rest : v \in volume},
      volume |-> volume,
      volatility |-> {absChange},
      liquidity |-> {(v * 10) \div (ticker.spread + 1) : v \in volume}]

\* analyzePair reads ticker.quoteAssetVolume (line 221)
AnalyzePair(ticker) ==
  AnalyzePairOf(ticker, IF "quoteAssetVolume" \in DOMAIN ticker
                          THEN {ticker.quoteAssetVolume} ELSE NaN)

\* a filter that lets every analysis through
AcceptAny(a) == TRUE

\* the three thresholds (lines 134-136)
PassesThresholds(a) ==
  /\ Ge(a.volume, MinVolume)
  /\ Ge(a.liquidity, MinLiquidity \div Thousand)
  /\ Le(a.volatility, MaxVolatility)

\* pairAnalyses.sort((a, b) => b.score - a.score) (line 169): stable, and a
\* NaN difference counts as equal
RECURSIVE InsertPair(_, _)
InsertPair(a, sorted) ==
  IF sorted = <<>> THEN <<a>>
  ELSE IF Gt(a.score, Head(sorted).score)
         THEN <<a>> \o sorted
         ELSE <<Head(sorted)>> \o InsertPair(a, Tail(sorted))

RECURSIVE SortPairs(_)
SortPairs(as) ==
  IF as = <<>> THEN <<>>
  ELSE LET n == Len(as)
       IN InsertPair(as[n], SortPairs(SubSeq(as, 1, n - 1)))

\* lines 103-171 for the fetched tickers: the analyses that pass, sorted,
\* cut to topPairsCount
TopPairs(tickers) ==
  LET usdtPairs == SelectSeq(tickers, PreFilter)
      analyses == [i \in 1..Len(usdtPairs) |-> AnalyzePair(usdtPairs[i])]
      sorted == SortPairs(SelectSeq(analyses, PassesThresholds))
  IN SubSeq(sorted, 1, IF Len(sorted) < TopPairsCount THEN Len(sorted)
                        ELSE TopPairsCount)

SelectedSymbols(tickers) ==
  LET top == TopPairs(tickers) IN [i \in 1..Len(top) |-> top[i].symbol]

\* the selector as constructed (lines 28-35), no call in flight.  The ghost
\* fields: trail lists the fetch attempts and waits of the call; within
\* tells that the call began less than updateInterval after the lastUpdate
\* of a completed pass, cachedList is lastSelection as it was then; rows is
\* the exchange's answer that the pass worked on; how tells how the last
\* call ended
NoSel ==
  [now |-> StartClock, lastSelection |-> <<>>, lastUpdate |-> 0,
   dbInit |-> FALSE, phase |-> "idle", callNow |-> 0, attempt |-> 0,
   tickers |-> <<>>, returned |-> <<>>, calls |-> 0,
   trail |-> <<>>, within |-> FALSE, cachedList |-> <<>>, rows |-> <<>>,
   how |-> "none"]

\* nothing evaluated
NoCalc == [fn |-> "none", arg |-> <<>>, out |-> <<>>]

\* the bot, the analyzer and the database after construction
BotInit ==
  /\ isRunning = FALSE /\ config = FALSE /\ tradingInterval = NoTimer
  /\ aIsRunning = FALSE /\ analysisInterval = NoTimer
  /\ pairUpdateInterval = NoTimer /\ aConfig = FALSE /\ symbols = <<>>
  /\ timers = [k \in TimerIds |-> [kind |-> "none", live |-> FALSE]]
  /\ nextTimer = 0
  /\ botDbInit = FALSE /\ aDbInit = FALSE
  \* the database outlives the process: a stale run flag, an earlier
  \* configuration, open trades and market data may all be there
  /\ \E db \in {<<FALSE, FALSE>>, <<FALSE, TRUE>>, <<TRUE, TRUE>>} :
       dbRunning = db[1] /\ dbConfig = db[2]
  \* init() inserts total_capital 20 (line 877); updateConfig has set it to
  \* the configured capital where a configuration was stored
  /\ capital = (IF dbConfig THEN 100 ELSE 20) /\ totalProfit = 0
  /\ LET open == IF dbConfig THEN {"BTCUSDT"} ELSE {} IN
       /\ trades = [s \in Symbols |-> IF s \in open THEN <<StoredTrade>>
                                                     ELSE <<>>]
       /\ marketData = [s \in Symbols |-> IF dbConfig THEN StoredRow
                                                      ELSE NoData]
  /\ pc = [p \in Procs |-> "idle"]
  /\ ret = [p \in Procs |-> "idle"]
  /\ loc = [p \in Procs |-> NoLoc]
  /\ result = [p \in Callers |-> "none"]
  /\ eff = [p \in Procs |-> NoEff]
  /\ obs = [flagWriter |-> "", stopped |-> FALSE, lateTick |-> FALSE,
            lateCallback |-> FALSE, orderStopped |-> FALSE,
            writeStopped |-> FALSE, analysed |-> {}]
  /\ events = 0

Init == BotInit /\ sel = NoSel /\ calc = NoCalc

\* ---- MarketAnalyzer.stopAnalysis, up to its await --------------------------
\* isRunning = false; clearInterval of both handles; then await addLog
StopAnalysisSync ==
  /\ aIsRunning' = FALSE
  /\ analysisInterval' = NoTimer
  /\ pairUpdateInterval' = NoTimer
  /\ UNCHANGED <<aConfig, symbols>>

\* ---- TradingBot.forceStop --------------------------------------------------
\* forceStop that leaves the analyzer alone
ForceStopEntryBotOnly(p, r) ==
  /\ isRunning' = FALSE
  /\ tradingInterval' = NoTimer
  /\ timers' = Cleared(timers, {tradingInterval})
  /\ obs' = [obs EXCEPT !.flagWriter = p]
  /\ eff' = [eff EXCEPT ![p].cleared = @ \/ (Referenced \cap LiveTimers # {})]
  /\ pc' = [pc EXCEPT ![p] = "f_db"]
  /\ ret' = [ret EXCEPT ![p] = r]
  /\ UNCHANGED <<config, nextTimer, anaVars>>

\* entry, up to the await inside analyzer.stopAnalysis()
ForceStopEntry(p, r) ==
  /\ isRunning' = FALSE
  /\ tradingInterval' = NoTimer
  /\ StopAnalysisSync
  /\ timers' = Cleared(timers, Referenced)
  /\ obs' = [obs EXCEPT !.flagWriter = p]
  /\ eff' = [eff EXCEPT ![p].cleared = @ \/ (Referenced \cap LiveTimers # {})]
  /\ pc' = [pc EXCEPT ![p] = "f_db"]
  /\ ret' = [ret EXCEPT ![p] = r]
  /\ UNCHANGED <<config, nextTimer>>

\* analyzer.stopAnalysis() settled (a rejected addLog is caught, line 82) and
\* updateBotStatus(false) settled: the flag is written, or the call throws
\* and forceStop only warns (lines 87-93).  forceStop returns to its caller;
\* inside the catch block of stop() the caller then rethrows (line 310)
ForceStopDb(p) ==
  /\ pc[p] = "f_db"
  /\ \E oa \in LogOutcomes(aDbInit), o \in DbOutcomes(botDbInit) :
       /\ aDbInit' = InitAfter(aDbInit, oa)
       /\ botDbInit' = InitAfter(botDbInit, o)
       /\ events' = events + (IF oa = "ok" THEN 0 ELSE 1) + (IF o = "ok" THEN 0 ELSE 1)
       /\ events' <= MaxEvents
       /\ dbRunning' = IF o = "ok" THEN FALSE ELSE dbRunning
       /\ eff' = [eff EXCEPT ![p].stepErr = @ \/ (o # "ok") \/ (oa # "ok"),
                             ![p].dbWrite = @ \/ (o = "ok"),
                             ![p].forced = TRUE]
  /\ IF ret[p] = "t_throw"
       THEN /\ pc' = [pc EXCEPT ![p] = "idle"]
            /\ result' = [result EXCEPT ![p] = "error"]
       ELSE /\ pc' = [pc EXCEPT ![p] = ret[p]]
            /\ UNCHANGED result
  /\ UNCHANGED <<botVars, anaVars, timVars, dbConfig, capital, totalProfit,
                 trades, marketData, ret, loc, obs>>
  /\ UNCHANGED <<sel, calc>>

\* ---- MarketAnalyzer.startAnalysis ------------------------------------------
InitialCapital == 100                  \* config.initialCapital of the model
TelegramEnabled == TRUE                \* config.telegramEnabled of the model

\* entry: an analyzer marked running is stopped first (await inside
\* stopAnalysis); otherwise the flag is set and getConfig is awaited
StartAnalysisEntry(p) ==
  /\ IF aIsRunning
       THEN /\ StopAnalysisSync
            /\ timers' = Cleared(timers, {analysisInterval, pairUpdateInterval})
            /\ pc' = [pc EXCEPT ![p] = "a_stopLog"]
       ELSE /\ aIsRunning' = TRUE
            /\ UNCHANGED <<analysisInterval, pairUpdateInterval, aConfig,
                           symbols, timers>>
            /\ pc' = [pc EXCEPT ![p] = "a_cfg"]
  /\ ret' = [ret EXCEPT ![p] = "a_timers"]
  /\ UNCHANGED nextTimer

\* startAnalysis rejected: start() runs its catch block (isRunning = false,
\* await addLog, rethrow); executeTradingLogic logs and ends the tick
AnalyzerThrow(p) ==
  IF p \in Starters
    THEN /\ isRunning' = FALSE
         /\ obs' = [obs EXCEPT !.flagWriter = p]
         /\ eff' = [eff EXCEPT ![p].failedAt = "analyzer"]
         /\ pc' = [pc EXCEPT ![p] = "s_catch"]
    ELSE /\ pc' = [pc EXCEPT ![p] = "idle"]
         /\ UNCHANGED <<isRunning, obs, eff>>

\* the addLog of stopAnalysis settles inside startAnalysis (line 63)
AnalyzerStopLog(p) ==
  /\ pc[p] = "a_stopLog"
  /\ \E o \in LogOutcomes(aDbInit) :
       /\ aDbInit' = InitAfter(aDbInit, o)
       /\ events' = FaultsAfter(o)
       /\ IF o = "initfail"
            THEN /\ AnalyzerThrow(p)
                 /\ UNCHANGED aIsRunning
            ELSE /\ aIsRunning' = TRUE
                 /\ pc' = [pc EXCEPT ![p] = "a_cfg"]
                 /\ UNCHANGED <<isRunning, obs, eff>>
  /\ UNCHANGED <<config, tradingInterval, analysisInterval,
                 pairUpdateInterval, aConfig, symbols, timVars, dbVars,
                 botDbInit, ret, loc, result>>
  /\ UNCHANGED <<sel, calc>>

\* getConfig settles (lines 69-73): no active row, or a failed query, gives
\* null and startAnalysis throws with isRunning left true
AnalyzerConfig(p) ==
  /\ pc[p] = "a_cfg"
  /\ \E o \in DbOutcomes(aDbInit) :
       /\ aDbInit' = InitAfter(aDbInit, o)
       /\ events' = FaultsAfter(o)
       /\ IF o = "ok" /\ dbConfig
            THEN /\ aConfig' = TRUE
                 /\ pc' = [pc EXCEPT ![p] = "a_pairs"]
                 /\ UNCHANGED <<isRunning, obs, eff>>
            ELSE /\ AnalyzerThrow(p)
                 /\ UNCHANGED aConfig
  /\ UNCHANGED <<config, tradingInterval, aIsRunning, analysisInterval,
                 pairUpdateInterval, symbols, timVars, dbVars, botDbInit,
                 ret, loc, result>>
  /\ UNCHANGED <<sel, calc>>

\* ---- MarketAnalyzer.updateTradingPairs -------------------------------------
\* selectBestTradingPairs settled: this.symbols = newPairs (line 128); then
\* getConfig + updateConfig({...latestConfig, tradingPairs}) settled
\* (lines 131-145); updateConfig rewrites bot_stats.total_capital
\* (line 1228) and may fail after its DELETE; errors are logged (line 171)
UpdatePairs(p) ==
  /\ pc[p] = "a_pairs"
  /\ \E newPairs \in SymbolLists : symbols' = newPairs
  /\ \E o \in DbOutcomes(aDbInit) :
       /\ aDbInit' = InitAfter(aDbInit, o)
       /\ events' = FaultsAfter(o)
       /\ IF aConfig /\ dbConfig
            THEN IF o = "ok"
                   THEN capital' = InitialCapital /\ UNCHANGED dbConfig
                   ELSE /\ UNCHANGED capital
                        /\ \E kept \in BOOLEAN : dbConfig' = (kept /\ dbConfig)
            ELSE UNCHANGED <<capital, dbConfig>>
  /\ pc' = [pc EXCEPT ![p] = ret[p]]
  /\ UNCHANGED <<botVars, aIsRunning, analysisInterval, pairUpdateInterval,
                 aConfig, timVars, dbRunning, totalProfit, trades,
                 marketData, botDbInit, ret, loc, result, eff, obs>>
  /\ UNCHANGED <<sel, calc>>

\* updateTradingPairs returned: both setInterval calls of startAnalysis
\* (lines 88-99); the handles overwrite whatever the fields held
AnalyzerTimers(p) ==
  /\ pc[p] = "a_timers"
  /\ nextTimer + 2 <= MaxTimers
  /\ analysisInterval' = nextTimer + 1
  /\ pairUpdateInterval' = nextTimer + 2
  /\ timers' = [timers EXCEPT ![nextTimer + 1] = [kind |-> "analysis", live |-> TRUE],
                              ![nextTimer + 2] = [kind |-> "pairs", live |-> TRUE]]
  /\ nextTimer' = nextTimer + 2
  /\ eff' = [eff EXCEPT ![p].made = @ \cup {nextTimer + 1, nextTimer + 2},
                        ![p].analyzer = TRUE]
  /\ pc' = [pc EXCEPT ![p] = IF p \in Starters THEN "s_loop" ELSE "idle"]
  /\ UNCHANGED <<botVars, aIsRunning, aConfig, symbols, dbVars, initVars, ret,
                 loc, result, obs, budVars>>
  /\ UNCHANGED <<sel, calc>>
\* ---- TradingBot.start ------------------------------------------------------
StartCall(p) ==
  /\ Free(p, Starters)
  /\ events < MaxEvents
  /\ events' = events + 1
  /\ pc' = [pc EXCEPT ![p] = "s_getStats"]
  /\ result' = [result EXCEPT ![p] = "pending"]
  /\ eff' = [q \in Procs |->
               IF q = p THEN NoEff
               ELSE IF q \in Stoppers /\ pc[q] # "idle"
                      THEN [eff[q] EXCEPT !.overlap = TRUE, !.unordered = TRUE]
                      ELSE eff[q]]
  /\ obs' = [obs EXCEPT !.stopped = FALSE]
  /\ UNCHANGED <<botVars, anaVars, timVars, dbVars, initVars, ret, loc>>
  /\ UNCHANGED <<sel, calc>>

\* getStats settled (line 98); a failed query yields the fallback stats with
\* isRunning false (line 1320); a running bot is force-stopped first
StartGetStats(p) ==
  /\ pc[p] = "s_getStats"
  /\ \E o \in DbOutcomes(botDbInit) :
       /\ botDbInit' = InitAfter(botDbInit, o)
       /\ events' = FaultsAfter(o)
       /\ IF o = "initfail"
            THEN /\ pc' = [pc EXCEPT ![p] = "idle"]
                 /\ result' = [result EXCEPT ![p] = "error"]
                 /\ eff' = [eff EXCEPT ![p].failedAt = "init"]
                 /\ UNCHANGED <<botVars, anaVars, timVars, ret, obs>>
            ELSE /\ UNCHANGED result
                 /\ IF isRunning \/ (o = "ok" /\ dbRunning)
                      THEN ForceStopEntry(p, "s_validate")
                      ELSE /\ pc' = [pc EXCEPT ![p] = "s_validate"]
                           /\ UNCHANGED <<botVars, anaVars, timVars, ret, obs, eff>>
  /\ UNCHANGED <<dbVars, aDbInit, loc>>
  /\ UNCHANGED <<sel, calc>>

\* start() with the run flag raised before the checks and left raised by the
\* catch block
StartValidateFlagFirst(p) ==
  /\ pc[p] = "s_validate"
  /\ \E o \in {"ok"} \cup (IF CanFail THEN {"conn", "funds"} ELSE {}) :
       /\ events' = FaultsAfter(o)
       /\ isRunning' = TRUE
       /\ IF o = "ok"
            THEN /\ config' = TRUE
                 /\ eff' = [eff EXCEPT ![p].setFlag = TRUE]
                 /\ pc' = [pc EXCEPT ![p] = "s_updConfig"]
            ELSE /\ UNCHANGED config
                 /\ eff' = [eff EXCEPT ![p].failedAt = o]
                 /\ pc' = [pc EXCEPT ![p] = "s_catch"]
  /\ obs' = [obs EXCEPT !.flagWriter = p]
  /\ UNCHANGED <<tradingInterval, anaVars, timVars, dbVars, initVars, ret,
                 loc, result>>
  /\ UNCHANGED <<sel, calc>>

\* connectivity and funds checks settled (lines 104-156).  On success
\* this.config and this.isRunning are set and updateConfig is awaited;
\* on failure the catch block clears the flag and awaits addLog
StartValidate(p) ==
  /\ pc[p] = "s_validate"
  /\ \E o \in {"ok"} \cup (IF CanFail THEN {"conn", "funds"} ELSE {}) :
       /\ events' = FaultsAfter(o)
       /\ IF o = "ok"
            THEN /\ config' = TRUE
                 /\ isRunning' = TRUE
                 /\ eff' = [eff EXCEPT ![p].setFlag = TRUE]
                 /\ pc' = [pc EXCEPT ![p] = "s_updConfig"]
            ELSE /\ isRunning' = FALSE
                 /\ UNCHANGED config
                 /\ eff' = [eff EXCEPT ![p].failedAt = o]
                 /\ pc' = [pc EXCEPT ![p] = "s_catch"]
  /\ obs' = [obs EXCEPT !.flagWriter = p]
  /\ UNCHANGED <<tradingInterval, anaVars, timVars, dbVars, initVars, ret,
                 loc, result>>
  /\ UNCHANGED <<sel, calc>>

\* updateConfig settled (lines 162-167, 1205-1239)
StartUpdateConfig(p) ==
  /\ pc[p] = "s_updConfig"
  /\ \E o \in DbOutcomes(botDbInit) :
       /\ botDbInit' = InitAfter(botDbInit, o)
       /\ events' = FaultsAfter(o)
       /\ IF o = "ok"
            THEN /\ dbConfig' = TRUE
                 /\ capital' = InitialCapital
                 /\ pc' = [pc EXCEPT ![p] = "s_updStatus"]
                 /\ UNCHANGED <<isRunning, obs, eff>>
            ELSE /\ UNCHANGED capital
                 /\ \E kept \in {dbConfig, dbConfig /\ o = "initfail"} :
                      dbConfig' = kept
                 /\ isRunning' = FALSE
                 /\ obs' = [obs EXCEPT !.flagWriter = p]
                 /\ eff' = [eff EXCEPT ![p].failedAt = "config"]
                 /\ pc' = [pc EXCEPT ![p] = "s_catch"]
  /\ UNCHANGED <<config, tradingInterval, anaVars, timVars, dbRunning,
                 totalProfit, trades, marketData, aDbInit, ret, loc, result>>
  /\ UNCHANGED <<sel, calc>>

\* updateBotStatus(true) settled (line 169); then startAnalysis is entered
StartUpdateStatus(p) ==
  /\ pc[p] = "s_updStatus"
  /\ \E o \in DbOutcomes(botDbInit) :
       /\ botDbInit' = InitAfter(botDbInit, o)
       /\ events' = FaultsAfter(o)
       /\ IF o = "ok"
            THEN /\ dbRunning' = TRUE
                 /\ eff' = [eff EXCEPT ![p].dbTrue = TRUE]
                 /\ StartAnalysisEntry(p)
                 /\ UNCHANGED <<isRunning, obs>>
            ELSE /\ UNCHANGED <<dbRunning, anaVars, timVars, ret>>
                 /\ isRunning' = FALSE
                 /\ obs' = [obs EXCEPT !.flagWriter = p]
                 /\ eff' = [eff EXCEPT ![p].failedAt = "status"]
                 /\ pc' = [pc EXCEPT ![p] = "s_catch"]
  /\ UNCHANGED <<config, tradingInterval, dbConfig, capital,
                 totalProfit, trades, marketData, aDbInit, loc, result>>
  /\ UNCHANGED <<sel, calc>>

\* startTradingLoop (lines 314-325): the new handle overwrites the field;
\* the notification and the logs that follow cannot fail: start returns
\* success (lines 186-223)
StartTradingLoop(p) ==
  /\ pc[p] = "s_loop"
  /\ nextTimer + 1 <= MaxTimers
  /\ tradingInterval' = nextTimer + 1
  /\ timers' = [timers EXCEPT ![nextTimer + 1] = [kind |-> "trading", live |-> TRUE]]
  /\ nextTimer' = nextTimer + 1
  /\ eff' = [eff EXCEPT ![p].made = @ \cup {nextTimer + 1}]
  /\ pc' = [pc EXCEPT ![p] = "idle"]
  /\ result' = [result EXCEPT ![p] = "ok"]
  /\ UNCHANGED <<isRunning, config, anaVars, dbVars, initVars, ret, loc, obs,
                 budVars>>
  /\ UNCHANGED <<sel, calc>>

\* the addLog of the catch block settled; start rethrows (lines 224-228)
StartCatch(p) ==
  /\ pc[p] = "s_catch"
  /\ pc' = [pc EXCEPT ![p] = "idle"]
  /\ result' = [result EXCEPT ![p] = "error"]
  /\ UNCHANGED <<botVars, anaVars, timVars, dbVars, initVars, ret, loc, eff,
                 obs, budVars>>
  /\ UNCHANGED <<sel, calc>>
\* ---- TradingBot.stop -------------------------------------------------------
StopCall(q) ==
  /\ Free(q, Stoppers)
  /\ events < MaxEvents
  /\ events' = events + 1
  /\ pc' = [pc EXCEPT ![q] = "t_getStats"]
  /\ result' = [result EXCEPT ![q] = "pending"]
  /\ eff' = [x \in Procs |->
               IF x = q
                 THEN [NoEff EXCEPT
                         !.flag0 = isRunning,
                         !.db0 = dbRunning,
                         !.overlap = \E p \in Starters : pc[p] # "idle",
                         !.unordered = \E p \in Starters :
                                          pc[p] # "idle" /\ ~eff[p].setFlag]
               ELSE IF x \in TSlots /\ pc[x] # "idle"
                      THEN [eff[x] EXCEPT !.overlap = TRUE]
                      ELSE eff[x]]
  /\ UNCHANGED <<botVars, anaVars, timVars, dbVars, initVars, ret, loc, obs>>
  /\ UNCHANGED <<sel, calc>>

\* getStats settled (lines 234-240): a rejected call and a failed query both
\* read as "not running"; then the already-stopped check (line 243)
StopGetStats(q) ==
  /\ pc[q] = "t_getStats"
  /\ \E o \in DbOutcomes(botDbInit) :
       /\ botDbInit' = InitAfter(botDbInit, o)
       /\ events' = FaultsAfter(o)
       /\ IF ~isRunning /\ ~(o = "ok" /\ dbRunning)
            THEN /\ pc' = [pc EXCEPT ![q] = "t_already"]
                 /\ UNCHANGED eff
            ELSE /\ pc' = [pc EXCEPT ![q] = "t_begin"]
                 /\ eff' = [eff EXCEPT ![q].pastCheck = TRUE]
  /\ UNCHANGED <<botVars, anaVars, timVars, dbVars, aDbInit, ret, loc,
                 result, obs>>
  /\ UNCHANGED <<sel, calc>>

\* a stop() that returns success
StopSuccess(q, res) ==
  /\ pc' = [pc EXCEPT ![q] = "idle"]
  /\ result' = [result EXCEPT ![q] = res]
  /\ obs' = [obs EXCEPT !.stopped = @ \/ ~eff[q].unordered]

\* the addLog of the already-stopped branch settled (lines 244-249)
StopAlready(q) ==
  /\ pc[q] = "t_already"
  /\ \E o \in LogOutcomes(botDbInit) :
       /\ botDbInit' = InitAfter(botDbInit, o)
       /\ events' = FaultsAfter(o)
       /\ IF o = "initfail"
            THEN /\ pc' = [pc EXCEPT ![q] = "t_catch"]
                 /\ eff' = [eff EXCEPT ![q].stepErr = TRUE]
                 /\ UNCHANGED <<result, obs>>
            ELSE /\ StopSuccess(q, "ok_notRunning")
                 /\ UNCHANGED eff
  /\ UNCHANGED <<botVars, anaVars, timVars, dbVars, aDbInit, ret, loc>>
  /\ UNCHANGED <<sel, calc>>

\* the addLog before the stop settled (line 252); forceStop is entered
StopBegin(q) ==
  /\ pc[q] = "t_begin"
  /\ \E o \in LogOutcomes(botDbInit) :
       /\ botDbInit' = InitAfter(botDbInit, o)
       /\ events' = FaultsAfter(o)
       /\ IF o = "initfail"
            THEN /\ pc' = [pc EXCEPT ![q] = "t_catch"]
                 /\ eff' = [eff EXCEPT ![q].stepErr = TRUE]
                 /\ UNCHANGED <<botVars, anaVars, timVars, ret, obs>>
            ELSE ForceStopEntry(q, "t_report")
  /\ UNCHANGED <<dbVars, aDbInit, loc, result>>
  /\ UNCHANGED <<sel, calc>>

\* final report (lines 258-286, every failure swallowed) and return
StopReport(q) ==
  /\ pc[q] = "t_report"
  /\ \E o \in DbOutcomes(botDbInit) :
       /\ botDbInit' = InitAfter(botDbInit, o)
       /\ events' = FaultsAfter(o)
       /\ eff' = [eff EXCEPT ![q].notified = (o = "ok" /\ dbConfig /\ TelegramEnabled)]
  /\ StopSuccess(q, "ok_wasRunning")
  /\ UNCHANGED <<botVars, anaVars, timVars, dbVars, aDbInit, ret, loc>>
  /\ UNCHANGED <<sel, calc>>

\* catch block of stop (lines 297-311): addLog, forceStop as fallback
StopCatch(q) ==
  /\ pc[q] = "t_catch"
  /\ \E o \in LogOutcomes(botDbInit) :
       /\ botDbInit' = InitAfter(botDbInit, o)
       /\ events' = FaultsAfter(o)
       /\ IF o = "initfail"
            THEN /\ pc' = [pc EXCEPT ![q] = "idle"]
                 /\ result' = [result EXCEPT ![q] = "error"]
                 /\ UNCHANGED <<botVars, anaVars, timVars, ret, obs, eff>>
            ELSE /\ ForceStopEntry(q, "t_throw")
                 /\ UNCHANGED result
  /\ UNCHANGED <<dbVars, aDbInit, loc>>
  /\ UNCHANGED <<sel, calc>>

\* ---- the trading tick: pure parts ------------------------------------------

\* MarketAnalyzer.generateSignals (lines 349-407) with every indicator of the
\* configuration in use; the samples carry no SMA trend
OverallSignal(md) ==
  LET rsi == IF md.rsi = 0 THEN 50 ELSE md.rsi
      buyScore == (IF rsi < 25 THEN 3 ELSE IF rsi < 30 THEN 2 ELSE 0)
                  + (IF md.macd = "BUY" THEN 2 ELSE 0)
      sellScore == (IF rsi > 75 THEN 3 ELSE IF rsi > 70 THEN 2 ELSE 0)
                   + (IF md.macd = "SELL" THEN 2 ELSE 0)
  IN IF buyScore > sellScore /\ buyScore >= 3 THEN "BUY"
     ELSE IF sellScore > buyScore /\ sellScore >= 3 THEN "SELL"
     ELSE "NEUTRAL"

\* MarketAnalyzer.calculateConfidence (lines 413-508); the klines of the
\* samples show no rise of the traded volume
Confidence(md) ==
  LET rsi == IF md.rsi = 0 THEN 50 ELSE md.rsi
      c == (IF rsi < 25 \/ rsi > 75 THEN 35
            ELSE IF rsi < 30 \/ rsi > 70 THEN 25 ELSE 0)
           + (IF md.macd # "NEUTRAL" THEN 25 ELSE 0)
           + (IF Abs(md.change) > 3 THEN 10
              ELSE IF 2 * Abs(md.change) > 3 THEN 5 ELSE 0)
           + (IF \/ md.ema = "UP" /\ OverallSignal(md) = "BUY"
                 \/ md.ema = "DOWN" /\ OverallSignal(md) = "SELL"
                THEN 10 ELSE 0)
  IN IF c < 100 THEN c ELSE 100

\* the AnalysisResult that analyzeSymbol returns (lines 251-347)
AnalyzeSymbol(s, md) ==
  [symbol |-> s, price |-> md.price, change |-> md.change,
   volume |-> md.volume,
   rsi |-> IF md.rsi = 0 THEN 50 ELSE md.rsi,
   sigRsi |-> IF md.rsi # 0 /\ md.rsi < 30 THEN "BUY"
              ELSE IF md.rsi # 0 /\ md.rsi > 70 THEN "SELL" ELSE "NEUTRAL",
   sigMacd |-> md.macd, sigSma |-> "NEUTRAL",
   overall |-> OverallSignal(md), confidence |-> Confidence(md)]

\* a getLatestAnalysis that hands on what analyzeSymbol computed
AnalysisAsComputed(s, md) == AnalyzeSymbol(s, md)

\* the AnalysisResult that getLatestAnalysis rebuilds from the stored row
\* (lines 536-572): the row holds the price data, rsi and the macd and sma
\* signals (saveAnalysisResult, lines 510-528); overall and confidence are
\* the literals "NEUTRAL" and 0
AnalysisOf(s, md) ==
  [symbol |-> s, price |-> md.price, change |-> md.change,
   volume |-> md.volume,
   rsi |-> IF md.rsi = 0 THEN 50 ELSE md.rsi,
   sigRsi |-> IF md.rsi # 0 /\ md.rsi < 30 THEN "BUY"
              ELSE IF md.rsi # 0 /\ md.rsi > 70 THEN "SELL" ELSE "NEUTRAL",
   sigMacd |-> md.macd, sigSma |-> "NEUTRAL",
   overall |-> "NEUTRAL", confidence |-> 0]

\* the filter of executeTradingLogic (lines 346-357)
PassesFilter(a) ==
  /\ a.volume >= 500000
  /\ Abs(a.change) < 20
  /\ a.price > 0 /\ a.price < 100000
  /\ (a.confidence > 0 \/ a.rsi > 0)

\* score of the sort (lines 360-364), scaled by 10^7 to stay in integers
Score(a) == a.confidence * 10000000 + a.volume

RECURSIVE InsertByScore(_, _)
InsertByScore(a, sorted) ==
  IF sorted = <<>> THEN <<a>>
  ELSE IF Score(a) > Score(Head(sorted))
         THEN <<a>> \o sorted
         ELSE <<Head(sorted)>> \o InsertByScore(a, Tail(sorted))

RECURSIVE SortByScore(_)
SortByScore(as) ==
  IF as = <<>> THEN <<>>
  ELSE LET n == Len(as)
       IN InsertByScore(as[n], SortByScore(SubSeq(as, 1, n - 1)))

\* stable descending sort needs ties to keep their order: the last element
\* is inserted after every element of equal score
TopOpportunities(results) ==
  LET sorted == SortByScore(SelectSeq(results, PassesFilter))
  IN SubSeq(sorted, 1, IF Len(sorted) < 5 THEN Len(sorted) ELSE 5)

Count(bs) == Cardinality({i \in DOMAIN bs : bs[i]})

\* TradingBot.shouldBuy (lines 477-495)
ShouldBuy(a, totalCapital) ==
  LET strongSignal == a.overall = "BUY" /\ a.confidence >= 75
      mediumSignal == a.overall = "BUY" /\ a.confidence >= 60 /\ a.rsi < 35
      volumeGood == a.volume >= 1000000
      rsiOversold == a.rsi < 40
      positiveSignals ==
        Cardinality({i \in 1..3 : <<a.sigRsi, a.sigMacd, a.sigSma>>[i] = "BUY"}) >= 2
      capitalAvailable == totalCapital > 50
      priceStable == Abs(a.change) < 10
      buyScore == Count(<<strongSignal, mediumSignal, volumeGood, rsiOversold,
                          positiveSignals, capitalAvailable, priceStable>>)
  IN buyScore >= 5 /\ (strongSignal \/ mediumSignal)

\* a shouldSell that tries the two signal rules before the profit target
ShouldSellSignalFirst(entry, a, currentPrice, hoursOpen) ==
  LET pp == (currentPrice - entry) * 1000
      pct(x) == x * 10 * entry
      half == 5 * entry
  IN IF pp <= pct(-5) THEN "stop-loss"
     ELSE IF pp >= pct(2) /\ a.overall = "SELL" /\ a.confidence > 70
            THEN "medium-profit-strong-sell"
     ELSE IF pp >= half /\ a.overall = "SELL" /\ a.confidence > 85
            THEN "very-strong-sell"
     ELSE IF pp >= pct(SellThreshold) THEN "profit-threshold"
     ELSE IF pp > pct(1) /\ a.rsi > 80 THEN "rsi-overbought"
     ELSE IF hoursOpen > 24 /\ pp > pct(-2) /\ pp < pct(1) THEN "stagnant"
     ELSE ""

\* TradingBot.shouldSell (lines 497-558): the reason of the first rule that
\* holds, "" when none does.  profitPercent = (cur - entry) / entry * 100 is
\* compared after multiplying both sides by 10 * entry
ShouldSell(entry, a, currentPrice, hoursOpen) ==
  LET pp == (currentPrice - entry) * 1000      \* 10 * entry * profitPercent
      pct(x) == x * 10 * entry                 \* x percent, same scale
      half == 5 * entry                        \* 0.5 percent
  IN IF pp <= pct(-5) THEN "stop-loss"
     ELSE IF pp >= pct(SellThreshold) THEN "profit-threshold"
     ELSE IF pp >= pct(2) /\ a.overall = "SELL" /\ a.confidence > 70
            THEN "medium-profit-strong-sell"
     ELSE IF pp >= half /\ a.overall = "SELL" /\ a.confidence > 85
            THEN "very-strong-sell"
     ELSE IF pp > pct(1) /\ a.rsi > 80 THEN "rsi-overbought"
     ELSE IF hoursOpen > 24 /\ pp > pct(-2) /\ pp < pct(1) THEN "stagnant"
     ELSE ""

TradePercentage == 10                  \* config.tradePercentage of the model

RECURSIVE LatestAnalysis(_, _)
LatestAnalysis(syms, md) ==
  IF syms = <<>> THEN <<>>
  ELSE (IF md[Head(syms)] = NoData THEN <<>>
        ELSE <<AnalysisOf(Head(syms), md[Head(syms)])>>)
       \o LatestAnalysis(Tail(syms), md)

\* stop() was called while the tick t was in flight, and the run flag is
\* false and it was a stop() that wrote it last
StoppedByStop(t) ==
  eff[t].overlap /\ ~isRunning /\ obs.flagWriter \in Stoppers

\* ---- timer callbacks -------------------------------------------------------
\* a callback whose guard fails (lines 317, 89, 96) returns at once
TimerNoop(k) ==
  /\ timers[k].live
  /\ IF timers[k].kind = "trading" THEN ~isRunning \/ ~config ELSE ~aIsRunning
  /\ obs' = [obs EXCEPT !.lateCallback = @ \/ obs.stopped]
  /\ UNCHANGED <<botVars, anaVars, timVars, dbVars, initVars, pc, ret, loc,
                 result, eff, budVars>>
  /\ UNCHANGED <<sel, calc>>

\* the trading callback (lines 316-324) enters executeTradingLogic, which
\* awaits addLog, getStats and getLatestAnalysis
TradingTick(k, t) ==
  /\ timers[k].live /\ timers[k].kind = "trading"
  /\ isRunning /\ config
  /\ Free(t, TSlots) /\ events < MaxEvents
  /\ events' = events + 1
  /\ pc' = [pc EXCEPT ![t] = "e_read"]
  /\ eff' = [eff EXCEPT ![t] = NoEff]
  /\ obs' = [obs EXCEPT !.lateTick = @ \/ obs.stopped]
  /\ UNCHANGED <<botVars, anaVars, timVars, dbVars, initVars, ret, loc,
                 result>>
  /\ UNCHANGED <<sel, calc>>

\* next element of topOpportunities, or the end of the tick
NextSymbol(t) ==
  /\ loc' = [loc EXCEPT ![t].todo = Tail(loc[t].todo),
                        ![t].side = "", ![t].trade = 0, ![t].left = <<>>,
                        ![t].reason = ""]
  /\ pc' = [pc EXCEPT ![t] = IF Len(loc[t].todo) > 1 THEN "e_sym" ELSE "idle"]

\* a rejected order that reaches the catch block of the whole tick
OrderFailedEndsTick(t) ==
  /\ loc' = [loc EXCEPT ![t].todo = <<>>,
                        ![t].side = "", ![t].trade = 0, ![t].left = <<>>,
                        ![t].reason = "",
                        ![t].failed = @ \cup {loc[t].side}]
  /\ pc' = [pc EXCEPT ![t] = "idle"]

\* placeOrder threw: the catch block of executeBuy / executeSell logs and
\* rethrows (lines 627-630, 687-691), the per-symbol catch (449-454) logs,
\* and the loop goes on with the next opportunity
OrderFailed(t) ==
  /\ loc' = [loc EXCEPT ![t].todo = Tail(loc[t].todo),
                        ![t].side = "", ![t].trade = 0, ![t].left = <<>>,
                        ![t].reason = "",
                        ![t].failed = @ \cup {loc[t].side}]
  /\ pc' = [pc EXCEPT ![t] = IF Len(loc[t].todo) > 1 THEN "e_sym" ELSE "idle"]

\* the ids of the OPEN trades of a symbol (getOpenTrades, lines 1475-1509)
OpenTrades(s) ==
  SelectSeq([i \in 1..Len(trades[s]) |-> i],
            LAMBDA i : trades[s][i].status = "OPEN")

RECURSIVE OpenTotal(_)
OpenTotal(syms) ==
  IF syms = {} THEN 0
  ELSE LET s == CHOOSE x \in syms : TRUE
       IN Len(OpenTrades(s)) + OpenTotal(syms \ {s})

\* calculateQuantity (dynamic-pair-selector.ts lines 639-651) for a ticker
\* price equal to the price of the analysis: usdtAmount / price, rounded to
\* the step of the symbol by toFixed
CalculateQuantity(usdtAmount, price) ==
  (2 * usdtAmount * QScale + price) \div (2 * price)

\* profitAmount of executeSell (line 647)
Profit(tr, currentPrice) == ((currentPrice - tr.price) * tr.quantity) \div QScale

\* a return that leaves out the amount paid at entry
ProfitOnly(tr, currentPrice) == Profit(tr, currentPrice)

\* totalReturn of executeSell (line 648)
TotalReturn(tr, currentPrice) == tr.amount + Profit(tr, currentPrice)

\* the reasons with which shouldSell accepts the trade at some age in hours
SellReasons(tr, a) ==
  {ShouldSell(tr.price, a, a.price, h) : h \in HoursOpen} \ {""}

\* some / not every age in hours makes shouldSell accept the trade
CanSell(tr, a) == \E h \in HoursOpen : ShouldSell(tr.price, a, a.price, h) # ""
CanSkip(tr, a) == \E h \in HoursOpen : ShouldSell(tr.price, a, a.price, h) = ""

\* the sell loop over the open trades read for the symbol (lines 433-447):
\* trades that shouldSell rejects are passed over without an await; the
\* first accepted one is sold by executeSell, the others wait in left
SellLoop(t, ids) ==
  LET a == Head(loc[t].todo)
      rows == trades[a.symbol]
  IN \E k \in 1..(Len(ids) + 1) :
       /\ \A j \in 1..(k - 1) : CanSkip(rows[ids[j]], a)
       /\ IF k <= Len(ids)
            THEN /\ CanSell(rows[ids[k]], a)
                 /\ pc' = [pc EXCEPT ![t] = "x_order"]
                 /\ \E reason \in SellReasons(rows[ids[k]], a) :
                      loc' = [loc EXCEPT ![t].side = "SELL",
                                         ![t].trade = ids[k],
                                         ![t].reason = reason,
                                         ![t].left = SubSeq(ids, k + 1, Len(ids))]
            ELSE NextSymbol(t)

\* some result read for an instrument for which an analysis tick of this
\* run computed, last, overall BUY with confidence >= 75 differs from that
\* in overall signal or confidence
Misread(results) ==
  \E i \in 1..Len(results) :
    LET s == results[i].symbol
        computed == AnalyzeSymbol(s, marketData[s])
    IN /\ s \in obs.analysed
       /\ computed.overall = "BUY" /\ computed.confidence >= 75
       /\ \/ results[i].overall # computed.overall
          \/ results[i].confidence # computed.confidence

\* stats and latest analysis read (lines 333-381); a database that cannot
\* be initialized rejects the first addLog (line 331) and the tick ends in
\* its catch block
TickRead(t) ==
  /\ pc[t] = "e_read"
  /\ \E o \in DbOutcomes(botDbInit) :
       /\ botDbInit' = InitAfter(botDbInit, o)
       /\ events' = FaultsAfter(o)
       /\ LET results == IF o = "ok" THEN LatestAnalysis(symbols, marketData) ELSE <<>>
              top == TopOpportunities(results)
          IN /\ loc' = [loc EXCEPT ![t] = [NoLoc EXCEPT
                                  !.todo = top,
                                  !.cap = IF o = "ok" THEN capital ELSE 20]]
             /\ pc' = [pc EXCEPT ![t] = IF o = "initfail" THEN "idle"
                                        ELSE IF results = <<>> THEN "e_restart"
                                        ELSE IF top = <<>> THEN "idle" ELSE "e_sym"]
             /\ eff' = [eff EXCEPT ![t].misread = Misread(results),
                                   ![t].zero = o # "initfail" /\ results = <<>>]
  /\ UNCHANGED <<botVars, anaVars, timVars, dbVars, aDbInit, ret, result,
                 obs>>
  /\ UNCHANGED <<sel, calc>>

\* a restart in which analyzer.isRunning() answers and startAnalysis runs to
\* its end, updateConfig included
TickRestartStartsAnalysis(t) ==
  /\ pc[t] = "e_restart"
  /\ eff' = [eff EXCEPT ![t].warned = TRUE]
  /\ pc' = [pc EXCEPT ![t] = "idle"]
  /\ IF aIsRunning
       THEN UNCHANGED <<aIsRunning, aConfig, capital>>
       ELSE /\ aIsRunning' = TRUE
            /\ aConfig' = dbConfig
            /\ capital' = IF dbConfig THEN InitialCapital ELSE capital
  /\ UNCHANGED <<botVars, analysisInterval, pairUpdateInterval, symbols,
                 timVars, dbRunning, dbConfig, totalProfit, trades,
                 marketData, initVars, ret, loc, result, obs, budVars>>
  /\ UNCHANGED <<sel, calc>>

\* no analysis result (lines 336-343): the warning is logged, then
\* this.analyzer.isRunning() is evaluated.  MarketAnalyzer declares the field
\* isRunning (market-analyzer.ts line 51) and the method isRunning() (line
\* 582): the field of the instance hides the method of the prototype, the
\* call of a boolean throws, and the tick ends in its catch block (line 469),
\* which logs
TickRestart(t) ==
  /\ pc[t] = "e_restart"
  /\ eff' = [eff EXCEPT ![t].warned = TRUE]
  /\ pc' = [pc EXCEPT ![t] = "idle"]
  /\ UNCHANGED <<botVars, anaVars, timVars, dbVars, initVars, ret, loc,
                 result, obs, budVars>>
  /\ UNCHANGED <<sel, calc>>

\* one instrument (lines 383-448).  At e_sym the buy decision is taken
\* (line 401); when shouldBuy accepts, the two getOpenTrades reads and the
\* size check follow (b_check, lines 403-410) and executeBuy starts with an
\* order.  Otherwise, and after executeBuy, the sell loop begins
TickSymbol(t) ==
  /\ pc[t] \in {"e_sym", "b_check"}
  /\ LET a == Head(loc[t].todo)
         s == a.symbol
         tradeAmount == (loc[t].cap * TradePercentage) \div 100
     IN IF pc[t] = "e_sym" /\ ShouldBuy(a, loc[t].cap)
          THEN pc' = [pc EXCEPT ![t] = "b_check"] /\ UNCHANGED loc
          ELSE IF /\ pc[t] = "b_check"
                  /\ OpenTotal(Symbols) < 3 /\ OpenTrades(s) = <<>>
                  /\ tradeAmount >= 10
                 THEN /\ pc' = [pc EXCEPT ![t] = "x_order"]
                      /\ loc' = [loc EXCEPT ![t].side = "BUY"]
                 ELSE SellLoop(t, OpenTrades(s))
  /\ UNCHANGED <<botVars, anaVars, timVars, dbVars, initVars, ret, result,
                 eff, obs, budVars>>
  /\ UNCHANGED <<sel, calc>>

\* a placeOrder whose rejection is ignored
TickOrderIgnoreFailure(t) ==
  /\ pc[t] = "x_order"
  /\ obs' = [obs EXCEPT !.orderStopped = @ \/ StoppedByStop(t)]
  /\ \E o \in {"ok"} \cup (IF CanFail THEN {"fail"} ELSE {}) :
       /\ events' = FaultsAfter(o)
       /\ pc' = [pc EXCEPT ![t] = "x_trade"] /\ UNCHANGED loc
  /\ UNCHANGED <<botVars, anaVars, timVars, dbVars, initVars, ret, result,
                 eff>>
  /\ UNCHANGED <<sel, calc>>

\* binance.placeOrder submitted and settled (lines 579, 645)
TickOrder(t) ==
  /\ pc[t] = "x_order"
  /\ obs' = [obs EXCEPT !.orderStopped = @ \/ StoppedByStop(t)]
  /\ \E o \in {"ok"} \cup (IF CanFail THEN {"fail"} ELSE {}) :
       /\ events' = FaultsAfter(o)
       /\ IF o = "ok"
            THEN pc' = [pc EXCEPT ![t] = "x_trade"] /\ UNCHANGED loc
            ELSE OrderFailed(t)
  /\ UNCHANGED <<botVars, anaVars, timVars, dbVars, initVars, ret, result,
                 eff>>
  /\ UNCHANGED <<sel, calc>>

\* addTrade (line 596) or updateTrade (line 657, with the profit of line 647
\* and the status CLOSED) settled
TickUpdateTrade(t) ==
  /\ pc[t] = "x_trade"
  /\ \E o \in DbOutcomes(botDbInit) :
       /\ botDbInit' = InitAfter(botDbInit, o)
       /\ events' = FaultsAfter(o)
       /\ IF o = "ok"
            THEN /\ LET a == Head(loc[t].todo)
                        s == a.symbol
                        tradeAmount == (loc[t].cap * TradePercentage) \div 100
                        bought == [status |-> "OPEN", price |-> a.price,
                                   amount |-> tradeAmount,
                                   quantity |->
                                     CalculateQuantity(tradeAmount, a.price),
                                   profit |-> 0]
                    IN trades' = IF loc[t].side = "BUY"
                                   THEN [trades EXCEPT ![s] = Append(@, bought)]
                                   ELSE [trades EXCEPT
                                           ![s][loc[t].trade].status = "CLOSED",
                                           ![s][loc[t].trade].profit =
                                             Profit(trades[s][loc[t].trade],
                                                    a.price)]
                 /\ obs' = [obs EXCEPT !.writeStopped = @ \/ StoppedByStop(t)]
                 /\ pc' = [pc EXCEPT ![t] = "x_capital"] /\ UNCHANGED loc
            ELSE NextSymbol(t) /\ UNCHANGED <<trades, obs>>
  /\ UNCHANGED <<botVars, anaVars, timVars, dbRunning, dbConfig,
                 capital, totalProfit, marketData, aDbInit, ret, result,
                 eff>>
  /\ UNCHANGED <<sel, calc>>

\* updateCapital settled (lines 597, 658, 1353-1370): -tradeAmount after a
\* buy, whose executeBuy then only logs and notifies before the sell loop
\* begins; totalReturn after a sell
TickUpdateCapital(t) ==
  /\ pc[t] = "x_capital"
  /\ \E o \in DbOutcomes(botDbInit) :
       /\ botDbInit' = InitAfter(botDbInit, o)
       /\ events' = FaultsAfter(o)
       /\ LET a == Head(loc[t].todo)
              s == a.symbol
          IN IF o = "ok" /\ dbConfig
               THEN /\ obs' = [obs EXCEPT !.writeStopped = @ \/ StoppedByStop(t)]
                    /\ IF loc[t].side = "BUY"
                         THEN /\ capital' = capital
                                   - (loc[t].cap * TradePercentage) \div 100
                              /\ SellLoop(t, OpenTrades(s))
                         ELSE /\ capital' = capital
                                   + TotalReturn(trades[s][loc[t].trade],
                                                 a.price)
                              /\ pc' = [pc EXCEPT ![t] = "x_profit"]
                              /\ UNCHANGED loc
               ELSE NextSymbol(t) /\ UNCHANGED <<capital, obs>>
  /\ UNCHANGED <<botVars, anaVars, timVars, dbRunning, dbConfig,
                 totalProfit, trades, marketData, aDbInit, ret, result, eff>>
  /\ UNCHANGED <<sel, calc>>

\* addProfit settled (line 659); the rest of executeSell only logs, and the
\* sell loop goes on; a rejected addProfit ends the symbol
TickAddProfit(t) ==
  /\ pc[t] = "x_profit"
  /\ \E o \in DbOutcomes(botDbInit) :
       /\ botDbInit' = InitAfter(botDbInit, o)
       /\ events' = FaultsAfter(o)
       /\ LET a == Head(loc[t].todo)
              tr == trades[a.symbol][loc[t].trade]
          IN IF o = "ok"
               THEN /\ totalProfit' = totalProfit + Profit(tr, a.price)
                    /\ SellLoop(t, loc[t].left)
               ELSE /\ UNCHANGED totalProfit
                    /\ NextSymbol(t)
  /\ UNCHANGED <<botVars, anaVars, timVars, dbRunning, dbConfig,
                 capital, trades, marketData, aDbInit, ret, result, eff,
                 obs>>
  /\ UNCHANGED <<sel, calc>>

\* the analysis callback (lines 88-92) enters performAnalysis (lines 176-199)
AnalysisTick(k, a) ==
  /\ timers[k].live /\ timers[k].kind = "analysis"
  /\ aIsRunning
  /\ Free(a, ASlots) /\ events < MaxEvents
  /\ symbols # <<>>
  /\ events' = events + 1
  /\ loc' = [loc EXCEPT ![a].todo = symbols]
  /\ pc' = [pc EXCEPT ![a] = "n_sym"]
  /\ obs' = [obs EXCEPT !.lateTick = @ \/ obs.stopped]
  /\ UNCHANGED <<botVars, anaVars, timVars, dbVars, initVars, ret, result,
                 eff>>
  /\ UNCHANGED <<sel, calc>>

\* performAnalysis with no selected pair only logs a warning (lines 178-181)
AnalysisTickEmpty(k) ==
  /\ timers[k].live /\ timers[k].kind = "analysis"
  /\ aIsRunning /\ symbols = <<>>
  /\ obs' = [obs EXCEPT !.lateTick = @ \/ obs.stopped]
  /\ UNCHANGED <<botVars, anaVars, timVars, dbVars, initVars, pc, ret, loc,
                 result, eff, budVars>>
  /\ UNCHANGED <<sel, calc>>

\* analyzeSymbol + saveAnalysisResult of one symbol settled (lines 199-223);
\* a failed fetch or save leaves the stored row as it was
AnalysisSymbol(a) ==
  /\ pc[a] = "n_sym"
  /\ \E row \in MarketSamples \cup {NoData} :
       /\ marketData' = IF row = NoData THEN marketData
                        ELSE [marketData EXCEPT ![Head(loc[a].todo)] = row]
       /\ obs' = [obs EXCEPT !.analysed = IF row = NoData
                                            THEN @ \ {Head(loc[a].todo)}
                                            ELSE @ \cup {Head(loc[a].todo)}]
  /\ loc' = [loc EXCEPT ![a].todo = Tail(loc[a].todo)]
  /\ pc' = [pc EXCEPT ![a] = IF Len(loc[a].todo) > 1 THEN "n_sym" ELSE "idle"]
  /\ UNCHANGED <<botVars, anaVars, timVars, dbRunning, dbConfig,
                 capital, totalProfit, trades, initVars, ret, result, eff,
                 budVars>>
  /\ UNCHANGED <<sel, calc>>

\* the pair-refresh callback (lines 95-99) enters updateTradingPairs
PairsTick(k, u) ==
  /\ timers[k].live /\ timers[k].kind = "pairs"
  /\ aIsRunning
  /\ Free(u, PSlots) /\ events < MaxEvents
  /\ events' = events + 1
  /\ pc' = [pc EXCEPT ![u] = "a_pairs"]
  /\ ret' = [ret EXCEPT ![u] = "idle"]
  /\ obs' = [obs EXCEPT !.lateTick = @ \/ obs.stopped]
  /\ UNCHANGED <<botVars, anaVars, timVars, dbVars, initVars, loc, result,
                 eff>>
  /\ UNCHANGED <<sel, calc>>

\* ---- TradingBot.isRunning (status query, lines 711-721) ---------------------
\* TradingBot declares the field isRunning and the method isRunning(): where
\* the field shadows the method the call throws.  Where it runs, getStats
\* settles and a differing persisted flag is copied into the in-memory flag;
\* a rejected getStats is caught (line 718)
StatusQuery ==
  /\ events < MaxEvents
  /\ \E callable \in BOOLEAN, o \in {"ok", "sqlfail", "initfail"} :
       /\ o = "initfail" => ~botDbInit
       /\ events' = events + 1
       /\ IF callable
            THEN /\ botDbInit' = InitAfter(botDbInit, o)
                 /\ LET dbStats == (o = "ok" /\ dbRunning) IN
                      IF o # "initfail" /\ isRunning # dbStats
                        THEN /\ isRunning' = dbStats
                             /\ obs' = [obs EXCEPT !.flagWriter = "query"]
                        ELSE UNCHANGED <<isRunning, obs>>
            ELSE /\ o = "ok"
                 /\ UNCHANGED <<isRunning, obs, botDbInit>>
  /\ UNCHANGED <<config, tradingInterval, anaVars, timVars, dbVars, aDbInit,
                 pc, ret, loc, result, eff>>
  /\ UNCHANGED <<sel, calc>>

\* ---- DynamicPairSelector.selectBestTradingPairs (lines 37-214) --------------
\* the call up to the retry loop (lines 38-66): the cached list is returned
\* when it is recent and not empty.  The first addLog initializes the
\* selector's database; where that is rejected, the catch block (lines
\* 210-214) logs and returns [], or its addLog is rejected too and the call
\* rejects
SelCall ==
  /\ sel.phase = "idle" /\ sel.calls < MaxCalls
  /\ \E o \in {"ok"} \cup (IF sel.dbInit THEN {} ELSE {"initfail", "initfail2"}) :
       LET recent == sel.now - sel.lastUpdate < UpdateInterval
           base == [sel EXCEPT !.calls = @ + 1, !.callNow = sel.now,
                               !.trail = <<>>, !.attempt = 0,
                               !.within = recent /\ sel.lastUpdate # 0,
                               !.cachedList = sel.lastSelection,
                               !.rows = <<>>, !.tickers = <<>>,
                               !.returned = <<>>]
       IN sel' =
            IF o = "initfail2" THEN [base EXCEPT !.how = "threw"]
            ELSE IF o = "initfail"
              THEN [base EXCEPT !.dbInit = TRUE, !.how = "failed"]
            ELSE IF recent /\ sel.lastSelection # <<>>
              THEN [base EXCEPT !.dbInit = TRUE, !.how = "cached",
                                !.returned = sel.lastSelection]
              ELSE [base EXCEPT !.dbInit = TRUE, !.how = "none",
                                !.phase = "fetch"]
  /\ UNCHANGED <<sysVars, calc>>

\* one attempt of the retry loop (lines 68-96) and, after the last one, the
\* exits at lines 93 and 98-101: getAllTickers answers with tickers, with
\* none, or throws
SelFetch ==
  /\ sel.phase = "fetch"
  /\ \E rows \in Universes, threw \in BOOLEAN :
       /\ threw => rows = <<>>
       /\ LET last == sel.attempt = MaxRetries - 1
              tried == [sel EXCEPT !.trail = Append(@, "attempt")]
          IN sel' =
               IF threw
                 THEN IF last THEN [tried EXCEPT !.phase = "idle",
                                                 !.how = "failed"]
                      ELSE [tried EXCEPT !.phase = "wait"]
               ELSE IF rows = <<>>
                 THEN IF last THEN [tried EXCEPT !.phase = "idle",
                                                 !.how = "noTickers"]
                      ELSE [tried EXCEPT !.attempt = @ + 1]
               ELSE [tried EXCEPT !.phase = "analyze", !.rows = rows,
                                  !.tickers = GetAllTickers(rows)]
  /\ UNCHANGED <<sysVars, calc>>

\* the delay after an attempt that threw (lines 90-91) has passed
SelWait ==
  /\ sel.phase = "wait"
  /\ sel' = [sel EXCEPT !.phase = "fetch", !.attempt = @ + 1,
                        !.trail = Append(@, "wait")]
  /\ UNCHANGED <<sysVars, calc>>

\* filter, analysis, sort and cut of the fetched tickers, and the update of
\* the cache (lines 103-208)
SelAnalyze ==
  /\ sel.phase = "analyze"
  /\ LET selectedSymbols == SelectedSymbols(sel.tickers)
     IN sel' = [sel EXCEPT !.phase = "idle", !.how = "pass",
                           !.lastSelection = selectedSymbols,
                           !.lastUpdate = sel.callNow,
                           !.returned = selectedSymbols]
  /\ UNCHANGED <<sysVars, calc>>

\* time passes
SelAdvance ==
  /\ sel.now < MaxClock
  /\ sel' = [sel EXCEPT !.now = @ + 1]
  /\ UNCHANGED <<sysVars, calc>>

SelNext == SelCall \/ SelFetch \/ SelWait \/ SelAnalyze \/ SelAdvance

SelSpec == Init /\ [][SelNext]_vars

\* ---- specification ---------------------------------------------------------
Next ==
  \/ \E p \in Starters : StartCall(p)
  \/ \E p \in Starters : StartGetStats(p)
  \/ \E p \in Starters : StartValidate(p)
  \/ \E p \in Starters : StartUpdateConfig(p)
  \/ \E p \in Starters : StartUpdateStatus(p)
  \/ \E p \in Starters : StartTradingLoop(p)
  \/ \E p \in Starters : StartCatch(p)
  \/ \E p \in Callers : ForceStopDb(p)
  \/ \E p \in Starters : AnalyzerStopLog(p)
  \/ \E p \in Starters : AnalyzerConfig(p)
  \/ \E p \in Starters \cup PSlots : UpdatePairs(p)
  \/ \E p \in Starters : AnalyzerTimers(p)
  \/ \E q \in Stoppers : StopCall(q)
  \/ \E q \in Stoppers : StopGetStats(q)
  \/ \E q \in Stoppers : StopAlready(q)
  \/ \E q \in Stoppers : StopBegin(q)
  \/ \E q \in Stoppers : StopReport(q)
  \/ \E q \in Stoppers : StopCatch(q)
  \/ \E k \in TimerIds : TimerNoop(k)
  \/ \E k \in TimerIds, t \in TSlots : TradingTick(k, t)
  \/ \E t \in TSlots : TickRead(t)
  \/ \E t \in TSlots : TickRestart(t)
  \/ \E t \in TSlots : TickSymbol(t)
  \/ \E t \in TSlots : TickOrder(t)
  \/ \E t \in TSlots : TickUpdateTrade(t)
  \/ \E t \in TSlots : TickUpdateCapital(t)
  \/ \E t \in TSlots : TickAddProfit(t)
  \/ \E k \in TimerIds, a \in ASlots : AnalysisTick(k, a)
  \/ \E k \in TimerIds : AnalysisTickEmpty(k)
  \/ \E a \in ASlots : AnalysisSymbol(a)
  \/ \E k \in TimerIds, u \in PSlots : PairsTick(k, u)
  \/ StatusQuery

Spec == Init /\ [][Next]_vars

\* ---- the per-instrument logic on computed analyses --------------------------
\* executeTradingLogic from line 383 on, applied to the analysis results that
\* analyzeSymbol computes, one or two instruments per tick
AnalysisInputs ==
  {TopOpportunities(<<AnalyzeSymbol("BTCUSDT", r)>>) : r \in MarketSamples}
  \cup {TopOpportunities(<<AnalyzeSymbol("BTCUSDT", r1),
                            AnalyzeSymbol("ETHUSDT", r2)>>) :
           r1 \in MarketSamples, r2 \in MarketSamples}

\* a running bot with a stored configuration; BTCUSDT may have an open trade
TradeInit ==
  /\ isRunning = TRUE /\ config = TRUE /\ tradingInterval = 1
  /\ aIsRunning = FALSE /\ analysisInterval = NoTimer
  /\ pairUpdateInterval = NoTimer /\ aConfig = FALSE
  /\ symbols = <<"ETHUSDT", "BTCUSDT">>
  /\ timers = [k \in TimerIds |->
                 IF k = 1 THEN [kind |-> "trading", live |-> TRUE]
                 ELSE [kind |-> "none", live |-> FALSE]]
  /\ nextTimer = 1
  /\ botDbInit = TRUE /\ aDbInit = FALSE
  /\ dbRunning = TRUE /\ dbConfig = TRUE
  /\ capital = InitialCapital /\ totalProfit = 0
  /\ \E held \in {<<>>, <<StoredTrade>>} :
       trades = [s \in Symbols |-> IF s = "BTCUSDT" THEN held ELSE <<>>]
  /\ marketData = [s \in Symbols |-> StoredRow]
  /\ pc = [p \in Procs |-> "idle"]
  /\ ret = [p \in Procs |-> "idle"]
  /\ loc = [p \in Procs |-> NoLoc]
  /\ result = [p \in Callers |-> "none"]
  /\ eff = [p \in Procs |-> NoEff]
  /\ obs = [flagWriter |-> "", stopped |-> FALSE, lateTick |-> FALSE,
            lateCallback |-> FALSE, orderStopped |-> FALSE,
            writeStopped |-> FALSE, analysed |-> {}]
  /\ events = 0
  /\ sel = NoSel /\ calc = NoCalc

\* the trading callback with the statistics read and the opportunities given
TradeTick(t) ==
  /\ timers[tradingInterval].live /\ isRunning /\ config
  /\ Free(t, TSlots) /\ events < MaxEvents
  /\ events' = events + 1
  /\ \E top \in AnalysisInputs \ {<<>>} :
       loc' = [loc EXCEPT ![t] = [NoLoc EXCEPT !.todo = top, !.cap = capital]]
  /\ pc' = [pc EXCEPT ![t] = "e_sym"]
  /\ eff' = [eff EXCEPT ![t] = NoEff]
  /\ UNCHANGED <<botVars, anaVars, timVars, dbVars, initVars, ret, result,
                 obs>>
  /\ UNCHANGED <<sel, calc>>

\* the trading callback with no analysis result read (line 336)
TradeTickEmpty(t) ==
  /\ timers[tradingInterval].live /\ isRunning /\ config
  /\ Free(t, TSlots) /\ events < MaxEvents
  /\ events' = events + 1
  /\ loc' = [loc EXCEPT ![t] = [NoLoc EXCEPT !.cap = capital]]
  /\ pc' = [pc EXCEPT ![t] = "e_restart"]
  /\ eff' = [eff EXCEPT ![t] = [NoEff EXCEPT !.zero = TRUE]]
  /\ UNCHANGED <<botVars, anaVars, timVars, dbVars, initVars, ret, result,
                 obs>>
  /\ UNCHANGED <<sel, calc>>

TradeNext ==
  \/ \E t \in TSlots : TradeTick(t)
  \/ \E t \in TSlots : TradeTickEmpty(t)
  \/ \E t \in TSlots : TickRestart(t)
  \/ \E t \in TSlots : TickSymbol(t)
  \/ \E t \in TSlots : TickOrder(t)
  \/ \E t \in TSlots : TickUpdateTrade(t)
  \/ \E t \in TSlots : TickUpdateCapital(t)
  \/ \E t \in TSlots : TickAddProfit(t)

TradeSpec == TradeInit /\ [][TradeNext]_vars

\* ---- shouldSell on its own --------------------------------------------------
\* the arguments of one call of shouldSell: the trade's entry price and age,
\* the current price, the analysis, and the configuration of the bot with
\* its riskManagement.stopLossPercentage (lines 12-16)
SellEntry == 200
SellPrices == {186, 188, 190, 191, 196, 197, 200, 201, 202, 203, 204, 205,
               206, 208}
SellInputs ==
  [entry : {SellEntry}, currentPrice : SellPrices,
   overall : {"BUY", "SELL", "NEUTRAL"}, confidence : {0, 71, 86},
   rsi : {50, 81}, hoursOpen : HoursOpen, stopLossPercentage : {3, 5, 10}]

SellInit == BotInit /\ sel = NoSel /\ calc \in [fn : {"none"}, arg : SellInputs, out : {<<>>}]

\* sellDecision = this.shouldSell(trade, analysis, currentPrice) (line 435)
SellDecide ==
  /\ calc.fn = "none"
  /\ LET in == calc.arg
         a == [overall |-> in.overall, confidence |-> in.confidence,
               rsi |-> in.rsi]
     IN calc' = [calc EXCEPT !.fn = "shouldSell",
                             !.out = ShouldSell(in.entry, a, in.currentPrice,
                                                in.hoursOpen)]
  /\ UNCHANGED <<sysVars, sel>>

SellNext == SellDecide

SellSpec == SellInit /\ [][SellNext]_vars

\* ---- shouldBuy on its own ---------------------------------------------------
\* the arguments of one call of shouldBuy: the analysis result and
\* stats.totalCapital
BuyInputs ==
  [overall : {"BUY", "NEUTRAL"}, confidence : {50, 60, 80},
   rsi : {20, 36, 50}, volume : {600000, 2000000},
   sigRsi : {"BUY", "NEUTRAL"}, sigMacd : {"BUY", "NEUTRAL"},
   sigSma : {"BUY", "NEUTRAL"}, change : {-6, 12}, totalCapital : {40, 100}]

BuyInit == BotInit /\ sel = NoSel /\ calc \in [fn : {"none"}, arg : BuyInputs, out : {<<>>}]

\* this.shouldBuy(analysis, stats) (line 404)
BuyDecide ==
  /\ calc.fn = "none"
  /\ calc' = [calc EXCEPT !.fn = "shouldBuy",
                          !.out = ShouldBuy(calc.arg, calc.arg.totalCapital)]
  /\ UNCHANGED <<sysVars, sel>>

BuyNext == BuyDecide

BuySpec == BuyInit /\ [][BuyNext]_vars

\* ---- the buys of one trading tick -------------------------------------------
\* stats.totalCapital as the tick read it (line 333), config.tradePercentage,
\* and how many of the tick's opportunities shouldBuy accepts while they have
\* no open trade of their own
BuyLoopInputs ==
  [totalCapital : {100, 200, 1000}, tradePercentage : {10, 30, 40, 60, 100},
   accepted : 1..4]

BuyLoopInit == BotInit /\ sel = NoSel /\ calc \in [fn : {"none"}, arg : BuyLoopInputs, out : {<<>>}]

\* total_capital in the database and the trades opened so far in the tick
BuyLoopState ==
  IF calc.fn = "none" THEN [capital |-> calc.arg.totalCapital, bought |-> 0]
  ELSE calc.out

\* one more buy of the tick's loop (lines 404-427): the cap of 3 open trades
\* is read from the database, tradeAmount comes from the stats read at the
\* start of the tick, and executeBuy ends with updateCapital(-tradeAmount)
\* (line 597), which adds the amount to total_capital (lines 1361-1366)
BuyLoopBuy ==
  LET st == BuyLoopState
      tradeAmount == (calc.arg.totalCapital * calc.arg.tradePercentage) \div 100
  IN /\ st.bought < calc.arg.accepted
     /\ st.bought < 3
     /\ tradeAmount >= 10
     /\ calc' = [calc EXCEPT !.fn = "executeBuy",
                   !.out = [capital |-> st.capital - tradeAmount,
                            bought |-> st.bought + 1]]
     /\ UNCHANGED <<sysVars, sel>>

BuyLoopNext == BuyLoopBuy

BuyLoopSpec == BuyLoopInit /\ [][BuyLoopNext]_vars

\* ---- TechnicalAnalysis: calculateRSI ----------------------------------------
\* a JavaScript number is the pair <<n, d>> of the fraction n / d with d > 0
\* when it is finite; d = 0 is what a division by zero leaves (Infinity, NaN)
Num(n) == <<n, 1>>

RECURSIVE GCD(_, _)
GCD(a, b) == IF b = 0 THEN a ELSE GCD(b, a % b)

\* the same number in lowest terms
RNorm(x) ==
  IF x[2] = 0 THEN x
  ELSE LET g == GCD(IF x[1] < 0 THEN 0 - x[1] ELSE x[1], x[2])
       IN <<x[1] \div g, x[2] \div g>>

RAdd(x, y) ==
  IF x[2] = 0 \/ y[2] = 0 THEN <<x[1] * y[2] + y[1] * x[2], 0>>
  ELSE LET g == GCD(x[2], y[2])
       IN RNorm(<<x[1] * (y[2] \div g) + y[1] * (x[2] \div g),
                  (x[2] \div g) * y[2]>>)
RSub(x, y) == RAdd(x, <<0 - y[1], y[2]>>)
RMul(x, y) == RNorm(<<x[1] * y[1], x[2] * y[2]>>)
RDiv(x, y) == IF y[1] >= 0 THEN RNorm(<<x[1] * y[2], x[2] * y[1]>>)
              ELSE RNorm(<<(0 - x[1]) * y[2], x[2] * (0 - y[1])>>)
REq(x, y) == x[2] # 0 /\ y[2] # 0 /\ RNorm(x) = RNorm(y)
RLt(x, y) == x[2] # 0 /\ y[2] # 0 /\ x[1] * y[2] < y[1] * x[2]
RLe(x, y) == RLt(x, y) \/ REq(x, y)

RECURSIVE SumSeq(_)
\* reduce((a, b) => a + b, 0)
SumSeq(q) == IF q = <<>> THEN 0 ELSE Head(q) + SumSeq(Tail(q))

MaxSeries == 5                         \* prices of one series
RsiPrices == {10, 11, 13, 16}
RsiPeriods == {1, 2, 3}
PriceSeries == UNION {[1..n -> RsiPrices] : n \in 0..MaxSeries}

\* gains[j], losses[j] of the change from prices[j] to prices[j + 1]
Gains(prices) ==
  [j \in 1..(Len(prices) - 1) |->
     IF prices[j + 1] - prices[j] > 0 THEN prices[j + 1] - prices[j] ELSE 0]
Losses(prices) ==
  [j \in 1..(Len(prices) - 1) |->
     IF prices[j + 1] - prices[j] < 0 THEN prices[j] - prices[j + 1] ELSE 0]

\* the body of the RSI loop without the test of avgLoss
RsiAtUnguarded(prices, period, i) ==
  LET avgGain == RDiv(Num(SumSeq(SubSeq(Gains(prices), i - period + 1, i))),
                      Num(period))
      avgLoss == RDiv(Num(SumSeq(SubSeq(Losses(prices), i - period + 1, i))),
                      Num(period))
      rs == RDiv(avgGain, avgLoss)
  IN [value |-> RSub(Num(100), RDiv(Num(100), RAdd(Num(1), rs))),
      divZero |-> avgLoss[1] = 0 \/ RAdd(Num(1), rs)[1] = 0]

\* the body of the RSI loop for the window that ends at gains[i]: the value
\* pushed and whether one of its divisions had the divisor 0
RsiAt(prices, period, i) ==
  LET avgGain == RDiv(Num(SumSeq(SubSeq(Gains(prices), i - period + 1, i))),
                      Num(period))
      avgLoss == RDiv(Num(SumSeq(SubSeq(Losses(prices), i - period + 1, i))),
                      Num(period))
      rs == RDiv(avgGain, avgLoss)
  IN IF avgLoss[1] = 0
     THEN [value |-> Num(100), divZero |-> period = 0]
     ELSE [value |-> RSub(Num(100), RDiv(Num(100), RAdd(Num(1), rs))),
           divZero |-> period = 0 \/ RAdd(Num(1), rs)[1] = 0]

\* calculateRSI(prices, period): one entry for i = period - 1 .. gains.length - 1
CalculateRSI(prices, period) ==
  LET n == Len(prices) - 1
  IN [k \in 1..(IF n >= period THEN n - period + 1 ELSE 0) |->
        RsiAt(prices, period, k + period - 1)]

\* the rsi indicator of analyzeSymbol: rsiValues[rsiValues.length - 1] || 50
\* (an empty result and the value 0 both give 50)
RsiIndicator(rsiValues) ==
  IF rsiValues = <<>> THEN Num(50)
  ELSE LET last == rsiValues[Len(rsiValues)].value
       IN IF last[2] = 0 \/ last[1] = 0 THEN Num(50) ELSE last

\* the rsi signal of generateSignals with useRSI on
RsiSignal(rsi) ==
  IF RLt(rsi, Num(30)) THEN "BUY"
  ELSE IF RLt(Num(70), rsi) THEN "SELL" ELSE "NEUTRAL"

RsiInputs == [prices : PriceSeries, period : RsiPeriods]

RsiInit == BotInit /\ sel = NoSel /\ calc \in [fn : {"none"}, arg : RsiInputs, out : {<<>>}]

\* TechnicalAnalysis.calculateRSI(prices, period)
RsiCalculate ==
  /\ calc.fn = "none"
  /\ calc' = [calc EXCEPT !.fn = "calculateRSI",
                          !.out = CalculateRSI(calc.arg.prices, calc.arg.period)]
  /\ UNCHANGED <<sysVars, sel>>

\* the RSI part of analyzeSymbol and generateSignals on the close prices
RsiAnalyze ==
  /\ calc.fn = "none"
  /\ Len(calc.arg.prices) > 0
  /\ LET rsiValues == CalculateRSI(calc.arg.prices, calc.arg.period)
     IN calc' = [calc EXCEPT !.fn = "analyzeSymbol",
                   !.out = [rsi |-> RsiIndicator(rsiValues),
                            signal |-> RsiSignal(RsiIndicator(rsiValues))]]
  /\ UNCHANGED <<sysVars, sel>>

RsiNext == RsiCalculate \/ RsiAnalyze

RsiSpec == RsiInit /\ [][RsiNext]_vars

\* ---- TechnicalAnalysis: calculateEMA and calculateMACD ----------------------
MacdPrices == {1, 2, 4}
\* fastPeriod, slowPeriod, signalPeriod of one call
MacdPeriods ==
  {[fast |-> 1, slow |-> 2], [fast |-> 1, slow |-> 3], [fast |-> 2, slow |-> 3]}
SignalPeriods == {1, 2, 3}
MacdSeries == UNION {[1..n -> MacdPrices] : n \in 0..MaxSeries}

RECURSIVE SumNum(_)
\* reduce((a, b) => a + b, 0) on numbers
SumNum(q) == IF q = <<>> THEN Num(0) ELSE RAdd(Head(q), SumNum(Tail(q)))

RECURSIVE EmaFrom(_, _, _, _)
\* the loop of calculateEMA from prices[i] on (i counts from 1)
EmaFrom(prices, period, i, ema) ==
  IF i > Len(prices) THEN ema
  ELSE LET prev == ema[Len(ema)]
           multiplier == RDiv(Num(2), Num(period + 1))
       IN EmaFrom(prices, period, i + 1,
                  Append(ema, RAdd(RMul(RSub(prices[i], prev), multiplier),
                                   prev)))

\* calculateEMA(prices, period): the first value is the sum of
\* prices.slice(0, period) over period, also when fewer prices exist
CalculateEMA(prices, period) ==
  LET n == IF Len(prices) < period THEN Len(prices) ELSE period
      sma == RDiv(SumNum(SubSeq(prices, 1, n)), Num(period))
  IN EmaFrom(prices, period, period + 1, <<sma>>)

\* a histogram that pairs signalLine[i] with macdLine[i]
HistogramFromHead(macdLine, signalLine) ==
  [i \in 1..Len(signalLine) |-> RSub(macdLine[i], signalLine[i])]

\* the histogram loop of calculateMACD (lines 76-80)
Histogram(macdLine, signalLine) ==
  [i \in 1..Len(signalLine) |->
     RSub(macdLine[i + (Len(macdLine) - Len(signalLine))], signalLine[i])]

\* calculateMACD(prices, fastPeriod, slowPeriod, signalPeriod)
CalculateMACD(prices, fastPeriod, slowPeriod, signalPeriod) ==
  LET emaFast == CalculateEMA(prices, fastPeriod)
      emaSlow == CalculateEMA(prices, slowPeriod)
      minLength == IF Len(emaFast) < Len(emaSlow) THEN Len(emaFast)
                   ELSE Len(emaSlow)
      macdLine == [i \in 1..minLength |-> RSub(emaFast[i], emaSlow[i])]
      signalLine == CalculateEMA(macdLine, signalPeriod)
  IN [macdLine |-> macdLine, signalLine |-> signalLine,
      histogram |-> Histogram(macdLine, signalLine)]

MacdInputs ==
  [prices : MacdSeries, periods : MacdPeriods, signalPeriod : SignalPeriods]

MacdInit == BotInit /\ sel = NoSel /\ calc \in [fn : {"none"}, arg : MacdInputs, out : {<<>>}]

\* TechnicalAnalysis.calculateMACD(prices, fast, slow, signal)
MacdCalculate ==
  /\ calc.fn = "none"
  /\ LET in == calc.arg
         prices == [i \in 1..Len(in.prices) |-> Num(in.prices[i])]
     IN calc' = [calc EXCEPT !.fn = "calculateMACD",
                   !.out = CalculateMACD(prices, in.periods.fast,
                                         in.periods.slow, in.signalPeriod)]
  /\ UNCHANGED <<sysVars, sel>>

MacdNext == MacdCalculate

MacdSpec == MacdInit /\ [][MacdNext]_vars

\* ---- TechnicalAnalysis: the five indicator functions on any series ----------
IndicatorPeriods == {2, 3}

\* calculateSMA(prices, period)
CalculateSMA(prices, period) ==
  LET n == Len(prices)
  IN [k \in 1..(IF n >= period THEN n - period + 1 ELSE 0) |->
        RDiv(SumNum(SubSeq(prices, k, k + period - 1)), Num(period))]

\* calculateVolatility(prices, period): the number whose Math.sqrt is
\* returned, and 0 for fewer than period prices
CalculateVolatility(prices, period) ==
  IF Len(prices) < period THEN Num(0)
  ELSE LET recent == SubSeq(prices, Len(prices) - period + 1, Len(prices))
           mean == RDiv(SumNum(recent), Num(period))
           squares == [i \in 1..period |->
                         RMul(RSub(recent[i], mean), RSub(recent[i], mean))]
       IN RDiv(SumNum(squares), Num(period))

IndicatorInputs == [prices : MacdSeries, period : IndicatorPeriods]

IndicatorInit == BotInit /\ sel = NoSel /\ calc \in [fn : {"none"}, arg : IndicatorInputs, out : {<<>>}]

\* one call of an indicator function; none of them has a throw statement,
\* so every call returns
IndicatorCall(fn) ==
  /\ calc.fn = "none"
  /\ LET prices == [i \in 1..Len(calc.arg.prices) |-> Num(calc.arg.prices[i])]
         period == calc.arg.period
         value ==
           CASE fn = "calculateSMA" -> CalculateSMA(prices, period)
             [] fn = "calculateEMA" -> CalculateEMA(prices, period)
             [] fn = "calculateRSI" -> CalculateRSI(calc.arg.prices, period)
             [] fn = "calculateMACD" -> CalculateMACD(prices, 1, period, 2)
             [] fn = "calculateVolatility" -> CalculateVolatility(prices, period)
     IN calc' = [calc EXCEPT !.fn = fn,
                             !.out = [threw |-> FALSE, value |-> value]]
  /\ UNCHANGED <<sysVars, sel>>

IndicatorNext ==
  \/ IndicatorCall("calculateSMA")
  \/ IndicatorCall("calculateEMA")
  \/ IndicatorCall("calculateRSI")
  \/ IndicatorCall("calculateMACD")
  \/ IndicatorCall("calculateVolatility")

IndicatorSpec == IndicatorInit /\ [][IndicatorNext]_vars

\* ---- MarketAnalyzer: indicators, generateSignals, calculateConfidence -------
SignalPrice == 100                     \* marketData.price of the calls
\* candles getKlines returned: calculateRSI(…, 14) needs 15 for a value,
\* MACD is computed from 26 on and the SMAs from 50 on
CandleCounts == {10, 20, 30, 60}
\* what the indicator functions return for the candles, when they are used
ComputedRsiValues == {0, 20, 27, 50, 72, 80}
ComputedMacd ==
  { [macd |-> 2, signal |-> 1, histogram |-> 1],
    [macd |-> -2, signal |-> -1, histogram |-> -1],
    [macd |-> 0, signal |-> 0, histogram |-> 0] }
ComputedSma ==
  { [sma20 |-> 98, sma50 |-> 95], [sma20 |-> 99, sma50 |-> 98],
    [sma20 |-> 102, sma50 |-> 105], [sma20 |-> 100, sma50 |-> 100] }
ComputedEma == { [ema12 |-> 101, ema26 |-> 100], [ema12 |-> 99, ema26 |-> 100] }
\* the last volume and the sum of the last ten volumes of the klines
KlineVolumes == { [current |-> 20, sum10 |-> 100], [current |-> 10, sum10 |-> 100] }
PriceChanges == {-6, 2, 1}

\* the defaults of analyzeSymbol (lines 293-301)
DefaultIndicators(price) ==
  [rsi |-> 50, macd |-> [macd |-> 0, signal |-> 0, histogram |-> 0],
   sma20 |-> price, sma50 |-> price, ema12 |-> price, ema26 |-> price]

\* x || d of JavaScript for a number x
OrElse(x, d) == IF x = 0 THEN d ELSE x

\* indicators taken from the computed values whatever the configuration and
\* the number of candles
ComputedIndicators(in) ==
  [rsi |-> OrElse(in.rsi, 50), macd |-> in.macd,
   sma20 |-> in.sma.sma20, sma50 |-> in.sma.sma50,
   ema12 |-> in.ema.ema12, ema26 |-> in.ema.ema26]

\* technicalIndicators of analyzeSymbol (lines 293-326); calculateRSI with
\* period 14 returns no value for fewer than 15 closes
TechnicalIndicators(in) ==
  LET d == DefaultIndicators(in.price)
      rsi == IF in.active.useRSI /\ in.candles > 0
             THEN (IF in.candles >= 15 THEN OrElse(in.rsi, 50) ELSE 50)
             ELSE d.rsi
      sma == in.active.useSMA /\ in.candles >= 50
      mac == in.active.useMACD /\ in.candles >= 26
  IN [rsi |-> rsi,
      macd |-> IF mac THEN in.macd ELSE d.macd,
      sma20 |-> IF sma THEN OrElse(in.sma.sma20, in.price) ELSE d.sma20,
      sma50 |-> IF sma THEN OrElse(in.sma.sma50, in.price) ELSE d.sma50,
      ema12 |-> IF mac THEN OrElse(in.ema.ema12, in.price) ELSE d.ema12,
      ema26 |-> IF mac THEN OrElse(in.ema.ema26, in.price) ELSE d.ema26]

\* an overall signal that is content with a score of 2
OverallFromTwo(buyScore, sellScore) ==
  IF buyScore > sellScore /\ buyScore >= 2 THEN "BUY"
  ELSE IF sellScore > buyScore /\ sellScore >= 2 THEN "SELL"
  ELSE "NEUTRAL"

\* the overall signal from the two scores (lines 402-406)
Overall(buyScore, sellScore) ==
  IF buyScore > sellScore /\ buyScore >= 3 THEN "BUY"
  ELSE IF sellScore > buyScore /\ sellScore >= 3 THEN "SELL"
  ELSE "NEUTRAL"

\* generateSignals(marketData, indicators, activeIndicators) (lines 349-410);
\* buy and sell list what each indicator adds to buyScore and sellScore
GenerateSignals(price, ind, active) ==
  LET rsi == IF active.useRSI /\ ind.rsi < 30 THEN "BUY"
             ELSE IF active.useRSI /\ ind.rsi > 70 THEN "SELL" ELSE "NEUTRAL"
      macd == IF ~active.useMACD THEN "NEUTRAL"
              ELSE IF ind.macd.macd > ind.macd.signal /\ ind.macd.histogram > 0
                   THEN "BUY"
              ELSE IF ind.macd.macd < ind.macd.signal /\ ind.macd.histogram < 0
                   THEN "SELL"
              ELSE "NEUTRAL"
      sma == IF ~active.useSMA THEN "NEUTRAL"
             ELSE IF price > ind.sma20 /\ ind.sma20 > ind.sma50 THEN "BUY"
             ELSE IF price < ind.sma20 /\ ind.sma20 < ind.sma50 THEN "SELL"
             ELSE "NEUTRAL"
      buy == [rsi |-> IF rsi = "BUY" THEN (IF ind.rsi < 25 THEN 3 ELSE 2) ELSE 0,
              macd |-> IF macd = "BUY" THEN 2 ELSE 0,
              sma |-> IF sma = "BUY" THEN 2 ELSE 0]
      sell == [rsi |-> IF rsi = "SELL" THEN (IF ind.rsi > 75 THEN 3 ELSE 2) ELSE 0,
               macd |-> IF macd = "SELL" THEN 2 ELSE 0,
               sma |-> IF sma = "SELL" THEN 2 ELSE 0]
  IN [rsi |-> rsi, macd |-> macd, sma |-> sma, buy |-> buy, sell |-> sell,
      overall |-> Overall(buy.rsi + buy.macd + buy.sma,
                          sell.rsi + sell.macd + sell.sma)]

\* calculateConfidence (lines 413-508): what each part adds, and the total
CalculateConfidence(change, ind, signals, volumes, active) ==
  LET rsi == IF ~active.useRSI THEN 0
             ELSE IF signals.rsi = "BUY" /\ ind.rsi < 25 THEN 35
             ELSE IF signals.rsi = "BUY" /\ ind.rsi < 30 THEN 25
             ELSE IF signals.rsi = "SELL" /\ ind.rsi > 75 THEN 35
             ELSE IF signals.rsi = "SELL" /\ ind.rsi > 70 THEN 25 ELSE 0
      macd == IF ~active.useMACD THEN 0
              ELSE IF signals.macd = "BUY" /\ ind.macd.histogram > 0 THEN 25
              ELSE IF signals.macd = "SELL" /\ ind.macd.histogram < 0 THEN 25
              ELSE 0
      sma == IF ~active.useSMA THEN 0
             ELSE IF signals.sma = "BUY"
                  THEN (IF (ind.sma20 - ind.sma50) * 100 > 2 * ind.sma50
                        THEN 25 ELSE 15)
             ELSE IF signals.sma = "SELL"
                  THEN (IF (ind.sma50 - ind.sma20) * 100 > 2 * ind.sma20
                        THEN 25 ELSE 15)
             ELSE 0
      volume == IF volumes.current * 20 > volumes.sum10 * 3 THEN 15
                ELSE IF volumes.current * 50 > volumes.sum10 * 6 THEN 10 ELSE 0
      momentum == IF Abs(change) > 3 THEN 10
                  ELSE IF 2 * Abs(change) > 3 THEN 5 ELSE 0
      ema == IF ~active.useMACD THEN 0
             ELSE IF ind.ema12 > ind.ema26 /\ signals.overall = "BUY" THEN 10
             ELSE IF ind.ema12 < ind.ema26 /\ signals.overall = "SELL" THEN 10
             ELSE 0
      total == rsi + macd + sma + volume + momentum + ema
  IN [rsi |-> rsi, macd |-> macd, sma |-> sma, volume |-> volume,
      momentum |-> momentum, ema |-> ema,
      confidence |-> IF total < 100 THEN total ELSE 100]

SignalInputs ==
  [price : {SignalPrice}, change : PriceChanges, candles : CandleCounts,
   active : [useRSI : BOOLEAN, useMACD : BOOLEAN, useSMA : BOOLEAN],
   rsi : ComputedRsiValues, macd : ComputedMacd, sma : ComputedSma,
   ema : ComputedEma, volumes : KlineVolumes]

SignalInit == BotInit /\ sel = NoSel /\ calc \in [fn : {"none"}, arg : SignalInputs, out : {<<>>}]

\* the indicator, signal and confidence part of analyzeSymbol (lines 293-337)
SignalAnalyze ==
  /\ calc.fn = "none"
  /\ LET in == calc.arg
         ind == TechnicalIndicators(in)
         signals == GenerateSignals(in.price, ind, in.active)
     IN calc' = [calc EXCEPT !.fn = "generateSignals",
                   !.out = [indicators |-> ind, signals |-> signals,
                            confidence |-> CalculateConfidence(in.change, ind,
                                             signals, in.volumes, in.active)]]
  /\ UNCHANGED <<sysVars, sel>>

SignalNext == SignalAnalyze

SignalSpec == SignalInit /\ [][SignalNext]_vars

TypeOK ==
  /\ isRunning \in BOOLEAN /\ config \in BOOLEAN /\ aIsRunning \in BOOLEAN
  /\ tradingInterval \in 0..MaxTimers
  /\ analysisInterval \in 0..MaxTimers /\ pairUpdateInterval \in 0..MaxTimers
  /\ nextTimer \in 0..MaxTimers
  /\ symbols \in SymbolLists
  /\ dbRunning \in BOOLEAN /\ dbConfig \in BOOLEAN
  /\ \A s \in Symbols : \A i \in 1..Len(trades[s]) :
       trades[s][i].status \in {"OPEN", "CLOSED"}
  /\ marketData \in [Symbols -> MarketSamples \cup {NoData}]
  /\ events \in 0..MaxEvents
\* ---- the claims --------------------------------------------------------------
Returned(p) == pc[p] = "idle" /\ result[p] \notin {"none", "pending"}
StopOk == {"ok_wasRunning", "ok_notRunning"}
Kinds == {"trading", "analysis", "pairs"}
RUNNING ==
  /\ isRunning /\ dbRunning /\ aIsRunning
  /\ LiveTimers = Referenced
  /\ \A kind \in Kinds : Cardinality(LiveOf(kind)) = 1
NOT_RUNNING ==
  /\ ~isRunning /\ ~dbRunning /\ ~aIsRunning
  /\ LiveTimers = {} /\ Referenced = {}

\* C1: once two concurrent start() calls have both returned success (and no
\* stop() was ever called), exactly one trading, one analysis and one
\* pair-refresh timer are live, and every live timer either call created is
\* referenced by the bot or the analyzer.
C1_OneTimerSet ==
  ( /\ \A p \in Starters : pc[p] = "idle" /\ result[p] = "ok"
    /\ \A q \in Stoppers : result[q] = "none" )
  => /\ \A kind \in Kinds : Cardinality(LiveOf(kind)) = 1
     /\ \A p \in Starters : (eff[p].made \cap LiveTimers) \subseteq Referenced

\* C2: after a stop() returned success, and until start() is called again,
\* no trading, analysis or pair-refresh timer callback enters its cycle body
\* (a stop() counts when every start() in progress at its call had already
\* raised the run flag and none was called during it).
C2_NoTickAfterStop == ~obs.lateTick

\* C3: a trading tick in flight when stop() is called places no order and
\* writes no trade record or capital change once a stop() has set the
\* in-memory run flag to false.
C3_TickRechecksFlag == ~obs.orderStopped /\ ~obs.writeStopped

\* C4: a stop() called while the in-memory and the persisted run flag are
\* both false, with no start() in progress during it, returns success with
\* wasRunning = false and has cleared no timer, written no run status, sent
\* no notification and run no forced stop.
C4_StopWhenStopped ==
  \A q \in Stoppers :
    (Returned(q) /\ ~eff[q].flag0 /\ ~eff[q].db0 /\ ~eff[q].overlap)
    => /\ result[q] = "ok_notRunning"
       /\ ~eff[q].cleared /\ ~eff[q].dbWrite
       /\ ~eff[q].notified /\ ~eff[q].forced

\* C5: at most one trading tick and at most one analysis tick is in flight
\* at any time.
C5_NoOverlap ==
  /\ Cardinality({t \in TSlots : pc[t] # "idle"}) <= 1
  /\ Cardinality({a \in ASlots : pc[a] # "idle"}) <= 1

\* C6: when one start() and one stop() (the only events of the behaviour:
\* no failure, no tick) have both returned, the state is RUNNING or
\* NOT_RUNNING.
C6_NoMixedState ==
  (events = 2 /\ Returned("start1") /\ Returned("stop1"))
  => (RUNNING \/ NOT_RUNNING)

\* C7: a start() whose connectivity or funds check failed raises an error;
\* it has not set the in-memory flag, not written the persisted flag true,
\* created no timer and not started the analyzer, and the in-memory flag is
\* false for as long as no other call writes it.
C7_ValidationFailure ==
  \A p \in Starters :
    eff[p].failedAt \in {"conn", "funds"}
    => /\ pc[p] \in {"s_catch", "idle"}
       /\ (pc[p] = "idle" => result[p] = "error")
       /\ ~eff[p].setFlag /\ ~eff[p].dbTrue
       /\ eff[p].made = {} /\ ~eff[p].analyzer
       /\ (obs.flagWriter = p => ~isRunning)

\* a start() of a running bot has force-stopped it, failed its checks and
\* returned the error
C7_Witness ==
  \E p \in Starters :
    /\ Returned(p) /\ result[p] = "error"
    /\ eff[p].failedAt \in {"conn", "funds"} /\ eff[p].cleared

\* C8: a start() that failed, in a behaviour with no other call and no timer
\* ever created, leaves the in-memory flag false, no live timer and the
\* analyzer not marked running.
C8_FailedStartNotRunning ==
  ( /\ Returned("start1") /\ result["start1"] = "error"
    /\ result["start2"] = "none" /\ \A q \in Stoppers : result[q] = "none"
    /\ nextTimer = 0 )
  => (~isRunning /\ ~aIsRunning /\ LiveTimers = {})

\* C9: after a stop() that went past the already-stopped check has returned
\* success, with no start() in progress during it or called since, no timer
\* is live and the persisted run flag is false.
C9_StopLeavesStopped ==
  \A q \in Stoppers :
    ( /\ Returned(q) /\ result[q] \in StopOk /\ eff[q].pastCheck
      /\ ~eff[q].overlap /\ obs.stopped )
    => (~dbRunning /\ LiveTimers = {})

C10_StopReportsSuccess ==
  \A q \in Stoppers : (Returned(q) /\ eff[q].forced) => result[q] \in StopOk

\* C12: when one start() has returned success and two stop() calls, the
\* first made while the bot is running and the second while the first is
\* in progress, have both returned (these three calls
\* being the only events: no failure, no tick body), both stops returned
\* success and the bot is NOT_RUNNING.
C12_ConcurrentStops ==
  ( /\ events = 3
    /\ Returned("start1") /\ result["start1"] = "ok" /\ result["start2"] = "none"
    /\ eff["stop1"].flag0
    /\ \A q \in Stoppers : Returned(q) /\ ~eff[q].overlap )
  => /\ \A q \in Stoppers : result[q] \in StopOk
     /\ NOT_RUNNING

\* both concurrent stops went through forceStop
C12_Witness ==
  /\ events = 3
  /\ Returned("start1") /\ result["start1"] = "ok" /\ result["start2"] = "none"
  /\ eff["stop1"].flag0
  /\ \A q \in Stoppers : Returned(q) /\ ~eff[q].overlap /\ eff[q].forced
                         /\ result[q] = "ok_wasRunning"

C14_CapitalFrame ==
  [][(dbConfig /\ capital' # capital) => \E t \in TSlots : pc[t] = "x_capital"]_vars

\* C15: when the exchange order of a buy or of a sell is rejected, the trade
\* records, the capital and the profit total stay as they are and the tick
\* leaves the instrument, so no write of that execution follows
C15_FailedOrder ==
  [][\A t \in TSlots :
       (pc[t] = "x_order" /\ pc'[t] # "x_order" /\ events' # events)
         => /\ trades' = trades /\ capital' = capital
            /\ totalProfit' = totalProfit
            /\ pc'[t] \in {"e_sym", "idle"}
            /\ loc'[t].todo = Tail(loc[t].todo)
            /\ loc'[t].failed = loc[t].failed \cup {loc[t].side}]_vars
\* one tick had a sell order and a buy order rejected
C15_Witness ==
  \E t \in TSlots : loc[t].failed = {"BUY", "SELL"}

\* C16: for every instrument whose most recent analysis tick computed
\* overall BUY with confidence >= 75, the analysis result that a trading
\* tick reads carries that overall signal and that confidence
C16_ReadsComputedSignal ==
  \A t \in TSlots : ~eff[t].misread

\* C17: a call of selectBestTradingPairs that begins within the refresh
\* interval of the last completed pass returns the cached list, whatever it
\* is, without fetching tickers
C17_CachedWithinInterval ==
  (sel.calls > 0 /\ sel.within)
    => /\ sel.phase = "idle" /\ sel.trail = <<>>
       /\ sel.how = "cached" /\ sel.returned = sel.cachedList

\* the analysis of the exchange row of a returned symbol, as the pass made it
RowsOf(symbol) == {j \in 1..Len(sel.rows) : sel.rows[j].symbol = symbol}
RowAnalysis(row) == AnalyzePairOf(TickerData(row), {row.quoteVolume})
\* the row passes the pre-scoring filter and its quote volume, liquidity
\* estimate and volatility meet the thresholds
Candidate(row) ==
  /\ PreFilter(TickerData(row))
  /\ Ge(RowAnalysis(row).volume, MinVolume)
  /\ Ge(RowAnalysis(row).liquidity, MinLiquidity \div Thousand)
  /\ Le(RowAnalysis(row).volatility, MaxVolatility)
\* C19: a fetched ticker that is a candidate is in the list the pass returns
\* whenever fewer than topPairsCount candidates have a higher score
C19_CandidateReturned ==
  (sel.phase = "idle" /\ sel.how = "pass") =>
    \A j \in 1..Len(sel.rows) :
      ( /\ Candidate(sel.rows[j])
        /\ Cardinality({k \in 1..Len(sel.rows) :
                          /\ Candidate(sel.rows[k])
                          /\ Gt(RowAnalysis(sel.rows[k]).score,
                                RowAnalysis(sel.rows[j]).score)})
             < TopPairsCount )
      => \E i \in 1..Len(sel.returned) : sel.returned[i] = sel.rows[j].symbol

\* C20: a pass makes at most 3 fetch attempts, and the fixed delay lies
\* between every two consecutive attempts
C20_DelayBetweenAttempts ==
  /\ Cardinality({i \in 1..Len(sel.trail) : sel.trail[i] = "attempt"})
       <= MaxRetries
  /\ \A i \in 1..(Len(sel.trail) - 1) :
       ~(sel.trail[i] = "attempt" /\ sel.trail[i + 1] = "attempt")

\* C21: every step of a trading tick that read no analysis result leaves the
\* trades, the capital and the total profit as they were and brings the tick
\* to no order, trade or capital write; the tick ends with the warning logged
C21_ZeroResultsNoTrade ==
  [][\A t \in TSlots :
       (eff[t].zero /\ pc[t] # "idle" /\ pc'[t] # pc[t])
         => /\ trades' = trades /\ capital' = capital
            /\ totalProfit' = totalProfit
            /\ pc'[t] \notin {"e_sym", "b_check", "x_order", "x_trade",
                              "x_capital", "x_profit"}
            /\ (pc'[t] = "idle" => eff'[t].warned)]_vars

\* a tick that read no result has ended while a trade is open and the
\* capital is not the configured one
C21_Witness ==
  \E t \in TSlots :
    /\ eff[t].zero /\ eff[t].warned /\ pc[t] = "idle"
    /\ OpenTotal(Symbols) > 0 /\ capital # InitialCapital

\* the rules of the sell decision in their priority order, each with its
\* condition on the profit in percent (as the fraction num / den), the
\* analysis and the age of the trade
SellRules(in) ==
  LET num == (in.currentPrice - in.entry) * 100
      den == in.entry
      sell == in.overall = "SELL"
  IN << <<num <= -5 * den, "stop-loss">>,
        <<num >= SellThreshold * den, "profit-threshold">>,
        <<num >= 2 * den /\ sell /\ in.confidence > 70,
          "medium-profit-strong-sell">>,
        <<2 * num >= den /\ sell /\ in.confidence > 85, "very-strong-sell">>,
        <<num > den /\ in.rsi > 80, "rsi-overbought">>,
        <<in.hoursOpen > 24 /\ num > -2 * den /\ num < den, "stagnant">> >>

Holding(rules) == {i \in 1..Len(rules) : rules[i][1]}

FirstReason(rules) ==
  IF Holding(rules) = {} THEN ""
  ELSE rules[CHOOSE i \in Holding(rules) : \A j \in Holding(rules) : i <= j][2]

\* C22: shouldSell returns the reason of the first rule, in the order
\* stop-loss, take-profit, medium profit with strong SELL, small profit with
\* very strong SELL, overbought with profit, stagnant, whose condition holds;
\* a loss of 5 percent or more gives the stop-loss reason whatever the
\* signal, confidence, RSI and age are
C22_SellPriority ==
  calc.fn = "shouldSell"
    => /\ calc.out = FirstReason(SellRules(calc.arg))
       /\ (calc.arg.entry - calc.arg.currentPrice) * 100 >= 5 * calc.arg.entry
            => calc.out = "stop-loss"

\* a position at -6 percent with a SELL signal of low confidence, an old trade
C22_Witness ==
  /\ calc.fn = "shouldSell" /\ calc.out = "stop-loss"
  /\ calc.arg.currentPrice = 188 /\ calc.arg.overall = "SELL"
  /\ calc.arg.confidence = 0 /\ calc.arg.hoursOpen = 25

\* C23: the stop-loss rule sells exactly the positions whose loss in percent
\* is at least the configured riskManagement.stopLossPercentage
C23_ConfiguredStopLoss ==
  calc.fn = "shouldSell"
    => (calc.out = "stop-loss"
          <=> (calc.arg.entry - calc.arg.currentPrice) * 100
                >= calc.arg.stopLossPercentage * calc.arg.entry)

\* the tick t is selling a trade whose gain in percent at the price of the
\* analysis is at least the configured sell threshold
AtProfitTarget(t) ==
  /\ pc[t] \in {"x_order", "x_trade", "x_capital"} /\ loc[t].side = "SELL"
  /\ LET a == Head(loc[t].todo)
         tr == trades[a.symbol][loc[t].trade]
     IN (a.price - tr.price) * 100 >= SellThreshold * tr.price

\* C24: a sell of a trade bought at E for A with quantity Q, at a price X
\* with (X - E) / E * 100 at or above the sell threshold, is made with the
\* profit-threshold reason; when its order succeeded the trade is recorded
\* CLOSED with profit (X - E) * Q, and the capital is credited with exactly
\* A + (X - E) * Q
C24_ProfitTargetSell ==
  [][\A t \in TSlots :
       AtProfitTarget(t) =>
         LET a == Head(loc[t].todo)
             s == a.symbol
             id == loc[t].trade
             tr == trades[s][id]
             gain == ((a.price - tr.price) * tr.quantity) \div QScale
         IN /\ loc[t].reason = "profit-threshold"
            /\ (pc[t] = "x_trade" /\ pc'[t] = "x_capital")
                 => /\ trades'[s][id].status = "CLOSED"
                    /\ trades'[s][id].profit = gain
            /\ (pc[t] = "x_capital" /\ pc'[t] = "x_profit")
                 => capital' = capital + tr.amount + gain]_vars

\* the capital of such a sell has been credited: the trade bought at 100 is
\* sold at 104
C24_Witness ==
  \E t \in TSlots :
    /\ pc[t] = "x_profit" /\ loc[t].reason = "profit-threshold"
    /\ Head(loc[t].todo).price = 104
    /\ trades[Head(loc[t].todo).symbol][loc[t].trade].profit = 8
    /\ capital = InitialCapital + TradeAmount + 8

\* C25: shouldBuy accepts an analysis only if the overall signal is BUY with
\* confidence >= 75, or BUY with confidence >= 60 and an oversold RSI, and
\* the 24h volume is at least the minimum, and at least two of the three
\* indicator signals are BUY, and the capital is above the floor, and the
\* absolute price change is inside the stability band
C25_BuyNeedsAll ==
  (calc.fn = "shouldBuy" /\ calc.out)
    => LET a == calc.arg
       IN /\ a.overall = "BUY"
          /\ a.confidence >= 75 \/ (a.confidence >= 60 /\ a.rsi < 35)
          /\ a.volume >= 1000000
          /\ Cardinality({x \in {"rsi", "macd", "sma"} :
                           [rsi |-> a.sigRsi, macd |-> a.sigMacd,
                            sma |-> a.sigSma][x] = "BUY"}) >= 2
          /\ a.totalCapital > 50
          /\ Abs(a.change) < 10

\* the call p leaves the instrument it is at and goes on with the ones that
\* remain, at the step next; flags and timers are as before
SkipsInstrument(p, next) ==
  /\ loc'[p].todo = Tail(loc[p].todo)
  /\ pc'[p] = IF Tail(loc[p].todo) # <<>> THEN next ELSE "idle"
  /\ isRunning' = isRunning /\ aIsRunning' = aIsRunning
  /\ timers' = timers
  /\ tradingInterval' = tradingInterval
  /\ analysisInterval' = analysisInterval
  /\ pairUpdateInterval' = pairUpdateInterval

\* C26: a rejected order or database write of a trading tick, and a failed
\* fetch or save of an analysis tick, end the work on that instrument only:
\* the tick goes on with its remaining instruments and does not return to
\* the failed one, and the run flags and the timers stay as they were
C26_FailureSkipsOneInstrument ==
  [][/\ \A t \in TSlots :
          (/\ pc[t] \in {"x_order", "x_trade", "x_capital", "x_profit"}
           /\ events' = events + 1 /\ pc'[t] # pc[t])
            => SkipsInstrument(t, "e_sym")
     /\ \A a \in ASlots :
          (/\ pc[a] = "n_sym" /\ loc'[a] # loc[a]
           /\ Head(loc[a].todo) \notin obs'.analysed)
            => SkipsInstrument(a, "n_sym")]_vars

\* a running bot's tick is at its second instrument after the order for the
\* first was rejected
C26_Witness ==
  \E t \in TSlots :
    /\ loc[t].failed # {} /\ pc[t] = "e_sym"
    /\ isRunning /\ tradingInterval \in LiveTimers

StrictlyIncreasing(prices) ==
  \A j \in 1..(Len(prices) - 1) : prices[j] < prices[j + 1]

\* C27: every value calculateRSI returns is a number from 0 to 100, none of
\* its divisions has the divisor 0, and for a strictly increasing series
\* every value is 100
C27_RsiRange ==
  calc.fn = "calculateRSI" =>
    \A k \in 1..Len(calc.out) :
      /\ ~calc.out[k].divZero
      /\ RLe(Num(0), calc.out[k].value) /\ RLe(calc.out[k].value, Num(100))
      /\ StrictlyIncreasing(calc.arg.prices) => REq(calc.out[k].value, Num(100))

\* a result that holds the value 100 of a window without losses and a value
\* strictly between 0 and 100
C27_Witness ==
  /\ calc.fn = "calculateRSI"
  /\ \E j, k \in 1..Len(calc.out) :
       /\ REq(calc.out[j].value, Num(100))
       /\ RLt(Num(0), calc.out[k].value) /\ RLt(calc.out[k].value, Num(100))

\* the last value calculateRSI returns for the close prices of the call
ComputedRsi ==
  LET rsiValues == CalculateRSI(calc.arg.prices, calc.arg.period)
  IN rsiValues[Len(rsiValues)].value

\* C30: with RSI enabled and enough candles for one RSI value, the rsi
\* signal of the analysis is BUY exactly when the RSI computed from the
\* close prices is below 30 (a computed 0 included), SELL exactly when it is
\* above 70, and NEUTRAL otherwise
C30_RsiSignal ==
  (/\ calc.fn = "analyzeSymbol"
   /\ CalculateRSI(calc.arg.prices, calc.arg.period) # <<>>)
    => calc.out.signal = (IF RLt(ComputedRsi, Num(30)) THEN "BUY"
                          ELSE IF RLt(Num(70), ComputedRsi) THEN "SELL"
                          ELSE "NEUTRAL")

\* the prices of the call as numbers
MacdArgPrices == [i \in 1..Len(calc.arg.prices) |-> Num(calc.arg.prices[i])]

\* C28: the histogram of calculateMACD is as long as the signal line, and
\* histogram[i] is macdLine[i + (len(macdLine) - len(signalLine))] minus
\* signalLine[i], where that MACD value is the one of the time step of
\* signalLine[i]: the last MACD value the signal value is computed from
C28_HistogramAligned ==
  calc.fn = "calculateMACD" =>
    LET macdLine == calc.out.macdLine
        signalLine == calc.out.signalLine
        offset == Len(macdLine) - Len(signalLine)
    IN /\ Len(calc.out.histogram) = Len(signalLine)
       /\ \A i \in 1..Len(signalLine) :
            /\ i + offset \in 1..Len(macdLine)
            /\ calc.out.histogram[i]
                 = RSub(macdLine[i + offset], signalLine[i])
            /\ LET upTo == CalculateEMA(SubSeq(macdLine, 1, i + offset),
                                        calc.arg.signalPeriod)
               IN signalLine[i] = upTo[Len(upTo)]

\* a call whose MACD line is longer than its signal line, which has more
\* than one value, and whose histogram is not zero throughout
C28_Witness ==
  /\ calc.fn = "calculateMACD"
  /\ Len(calc.out.signalLine) > 1
  /\ Len(calc.out.macdLine) > Len(calc.out.signalLine)
  /\ \E i \in 1..Len(calc.out.histogram) : calc.out.histogram[i][1] # 0

\* C29: macdLine[k] is the fast EMA minus the slow EMA of the same price
\* index: counting from 0, the fast EMA at price index slow - 1 + k minus
\* the slow EMA at that index, so that the last MACD value is the difference
\* of the last values of the two EMA series
C29_MacdTailAligned ==
  (calc.fn = "calculateMACD" /\ Len(calc.arg.prices) >= calc.arg.periods.slow)
    => LET emaFast == CalculateEMA(MacdArgPrices, calc.arg.periods.fast)
           emaSlow == CalculateEMA(MacdArgPrices, calc.arg.periods.slow)
           shift == calc.arg.periods.slow - calc.arg.periods.fast
           macdLine == calc.out.macdLine
       IN /\ Len(macdLine) = Len(emaSlow)
          /\ \A k \in 1..Len(macdLine) :
               macdLine[k] = RSub(emaFast[k + shift], emaSlow[k])
          /\ macdLine[Len(macdLine)]
               = RSub(emaFast[Len(emaFast)], emaSlow[Len(emaSlow)])

\* the scores the claim describes, from the signals and the rsi of a result
ClaimedBuyScore(out) ==
  (IF out.signals.rsi = "BUY"
   THEN (IF out.indicators.rsi < 25 THEN 3 ELSE 2) ELSE 0)
  + (IF out.signals.macd = "BUY" THEN 2 ELSE 0)
  + (IF out.signals.sma = "BUY" THEN 2 ELSE 0)
ClaimedSellScore(out) ==
  (IF out.signals.rsi = "SELL"
   THEN (IF out.indicators.rsi > 75 THEN 3 ELSE 2) ELSE 0)
  + (IF out.signals.macd = "SELL" THEN 2 ELSE 0)
  + (IF out.signals.sma = "SELL" THEN 2 ELSE 0)
\* the indicators of a result whose signal is not NEUTRAL
Signalling(out) ==
  {f \in {"rsi", "macd", "sma"} : out.signals[f] # "NEUTRAL"}

\* C31: overall is BUY exactly when buyScore > sellScore and buyScore >= 3,
\* SELL exactly when sellScore > buyScore and sellScore >= 3, else NEUTRAL,
\* with weight 3 for an RSI beyond 25 / 75, otherwise 2, and 2 for MACD and
\* SMA; one indicator signal alone that is not an extreme RSI gives NEUTRAL,
\* and so do equal scores
C31_OverallSignal ==
  calc.fn = "generateSignals" =>
    LET out == calc.out
        b == ClaimedBuyScore(out)
        s == ClaimedSellScore(out)
    IN /\ out.signals.overall = "BUY" <=> (b > s /\ b >= 3)
       /\ out.signals.overall = "SELL" <=> (s > b /\ s >= 3)
       /\ out.signals.overall \in {"BUY", "SELL", "NEUTRAL"}
       /\ b = s => out.signals.overall = "NEUTRAL"
       /\ (/\ Cardinality(Signalling(out)) = 1
           /\ ~(out.signals.rsi = "BUY" /\ out.indicators.rsi < 25)
           /\ ~(out.signals.rsi = "SELL" /\ out.indicators.rsi > 75))
            => out.signals.overall = "NEUTRAL"

\* an RSI of 27 and a MACD crossing upwards against an SMA downtrend: BUY
\* with 4 against 2
C31_Witness ==
  /\ calc.fn = "generateSignals"
  /\ calc.out.signals.rsi = "BUY" /\ calc.out.indicators.rsi = 27
  /\ calc.out.signals.macd = "BUY" /\ calc.out.signals.sma = "SELL"
  /\ calc.out.signals.overall = "BUY"

\* the indicator families of a call that are switched off or have too few
\* candles for a value
Unavailable(in) ==
  {f \in {"rsi", "macd", "sma"} :
     \/ f = "rsi" /\ (~in.active.useRSI \/ in.candles < 15)
     \/ f = "macd" /\ (~in.active.useMACD \/ in.candles < 26)
     \/ f = "sma" /\ (~in.active.useSMA \/ in.candles < 50)}

\* C32: an indicator family that is switched off or has too few candles has
\* the signal NEUTRAL and adds 0 to the buy score, to the sell score and to
\* the confidence (for MACD this includes the EMA confirmation)
C32_PlaceholderNeutral ==
  calc.fn = "generateSignals" =>
    \A f \in Unavailable(calc.arg) :
      /\ calc.out.signals[f] = "NEUTRAL"
      /\ calc.out.signals.buy[f] = 0 /\ calc.out.signals.sell[f] = 0
      /\ calc.out.confidence[f] = 0
      /\ f = "macd" => calc.out.confidence.ema = 0

\* 20 candles with RSI and MACD on and SMA off: the RSI gives a signal and
\* confidence, MACD and SMA are placeholders
C32_Witness ==
  /\ calc.fn = "generateSignals"
  /\ calc.arg.active = [useRSI |-> TRUE, useMACD |-> TRUE, useSMA |-> FALSE]
  /\ calc.arg.candles = 20
  /\ calc.arg.macd.histogram # 0 /\ calc.arg.sma.sma20 # calc.arg.sma.sma50
  /\ calc.out.signals.rsi = "BUY" /\ calc.out.confidence.rsi > 0
  /\ calc.out.indicators.macd.histogram = 0
  /\ calc.out.indicators.sma20 = calc.arg.price

\* the shortest series an indicator function has a value for
MinimumWindow(fn, period) == IF fn = "calculateRSI" THEN period + 1 ELSE period

\* C33: an indicator function called with a series shorter than its minimum
\* window (RSI: period + 1; SMA, EMA, volatility: period; MACD: the slow
\* period) signals a failure and returns no value
C33_InsufficientData ==
  (/\ calc.fn \in {"calculateSMA", "calculateEMA", "calculateRSI",
                   "calculateMACD", "calculateVolatility"}
   /\ "prices" \in DOMAIN calc.arg /\ "period" \in DOMAIN calc.arg
   /\ Len(calc.arg.prices) < MinimumWindow(calc.fn, calc.arg.period))
    => calc.out.threw

\* the OPEN trades of s whose loss at the stored price of s has reached the
\* stop-loss limit of 5%
AtStopLoss(s) ==
  {i \in 1..Len(trades[s]) :
     /\ trades[s][i].status = "OPEN"
     /\ marketData[s] # NoData
     /\ (marketData[s].price - trades[s][i].price) * 100
          <= (0 - 5) * trades[s][i].price}

\* C34: a tick of the running bot whose reads succeed evaluates every OPEN
\* trade: the instrument of each OPEN trade that has reached the stop-loss
\* limit is among the instruments the tick goes through, whether or not it
\* is selected, passes the volume / volatility band or ranks in the top 5
C34_OpenTradesEvaluated ==
  [][\A t \in TSlots :
       (/\ pc[t] = "e_read" /\ pc'[t] # "e_read"
        /\ events' = events /\ isRunning)
         => \A s \in Symbols :
              AtStopLoss(s) # {}
                => \E i \in 1..Len(loc'[t].todo) : loc'[t].todo[i].symbol = s]_vars

\* C35: the capital balance is never negative, for every trade percentage
\* up to 100 and however many buys a tick makes
C35_CapitalNotNegative ==
  calc.fn = "executeBuy" => calc.out.capital >= 0

\* C36: the bookkeeping of a buy and of a sell is all or nothing.  When
\* executeBuy ends after addTrade has written the OPEN record, capital has
\* been debited; when executeSell ends after updateTrade has written CLOSED,
\* capital has been credited with the total return and the profit total
\* has received the profit
C36_AllOrNothing ==
  [][\A t \in TSlots :
       /\ (pc[t] = "x_capital" /\ pc'[t] # "x_capital" /\ loc[t].side = "BUY")
            => capital' < capital
       /\ (pc[t] = "x_capital" /\ pc'[t] # "x_capital" /\ loc[t].side = "SELL")
            => /\ pc'[t] = "x_profit"
               /\ capital' = capital
                    + TotalReturn(trades[Head(loc[t].todo).symbol][loc[t].trade],
                                  Head(loc[t].todo).price)
       /\ (pc[t] = "x_profit" /\ pc'[t] # "x_profit")
            => totalProfit' = totalProfit
                 + Profit(trades[Head(loc[t].todo).symbol][loc[t].trade],
                          Head(loc[t].todo).price)]_vars

\* the ticks whose SELL order for trade k of s has been accepted and whose
\* executeSell is still writing
SoldBy(s, k) ==
  {t \in TSlots : /\ pc[t] \in {"x_trade", "x_capital", "x_profit"}
                  /\ loc[t].side = "SELL" /\ loc[t].trade = k
                  /\ Head(loc[t].todo).symbol = s}

\* C37: once the exchange has accepted a SELL order for a trade, no tick
\* submits another SELL order for that trade
C37_OneSellOrder ==
  [][\A t \in TSlots :
       (pc[t] = "x_order" /\ loc[t].side = "SELL" /\ pc'[t] = "x_trade")
         => SoldBy(Head(loc[t].todo).symbol, loc[t].trade) = {}]_vars

\* C38: whenever no start() or stop() call is in progress, and a start()
\* of this process has written the persisted run flag (so that it is no
\* flag left by an earlier process), the persisted run flag equals the
\* in-memory run flag; so it is false after a start() that failed
C38_PersistedFlagAgrees ==
  ( /\ \A p \in Callers : pc[p] = "idle"
    /\ \E p \in Starters : Returned(p) /\ eff[p].dbTrue )
  => dbRunning = isRunning

\* C39: whenever no start() or stop() call, and so no startAnalysis() or
\* stopAnalysis() call, is in progress, the analyzer is marked running
\* exactly when its analysis timer and its pair-refresh timer are both set
C39_AnalyzerFlagMeansTimers ==
  (\A p \in Callers : pc[p] = "idle")
  => (aIsRunning <=> (analysisInterval # NoTimer /\ pairUpdateInterval # NoTimer))

\* C40: a start() made while no other start() or stop() is in progress, and
\* while the in-memory or the persisted run flag says running, goes from
\* its pre-check into the forced stop whenever it goes on at all
C40_RestartForcesStop ==
  [][\A p \in Starters :
       ( /\ pc[p] = "s_getStats" /\ pc'[p] \notin {"s_getStats", "idle"}
         /\ \A q \in Callers \ {p} : pc[q] = "idle"
         /\ (isRunning \/ dbRunning) )
       => (pc'[p] = "f_db" /\ ~isRunning' /\ LiveTimers' \cap Referenced = {})]_vars
====
